---- MODULE Spec2Model ----
(***************************************************************************)
(* Active-set QP kernel of casadi/core/runtime/casadi_qp.hpp.              *)
(*                                                                         *)
(* Numbers of type T1 are modelled exactly: a finite value is a reduced    *)
(* fraction <<n, d>> with d > 0, +infinity is <<1, 0>>, -infinity is       *)
(* <<-1, 0>> and NaN is <<0, 0>>.  Vectors are functions on 0..n-1, so     *)
(* that indices, and the sentinel -1, are those of the source.             *)
(***************************************************************************)
EXTENDS Integers, Sequences, FiniteSets, TLC

VARIABLES p, d, pc, index, sign, r_index, r_sign, ret, d0, iter

vars == <<p, d, pc, index, sign, r_index, r_sign, ret, d0, iter>>

(***************************************************************************)
(* Arithmetic of T1                                                        *)
(***************************************************************************)
Abs(n) == IF n < 0 THEN -n ELSE n

Sgn(n) == IF n > 0 THEN 1 ELSE IF n < 0 THEN -1 ELSE 0

RECURSIVE Gcd(_, _)
Gcd(a, b) == IF b = 0 THEN a ELSE Gcd(b, a % b)

Norm(n, dn) ==
  LET g == Gcd(Abs(n), Abs(dn))
  IN  IF dn > 0 THEN <<n \div g, dn \div g>> ELSE <<(-n) \div g, (-dn) \div g>>

Q(n) == <<n, 1>>

Frac(n, dn) == Norm(n, dn)

PInf == <<1, 0>>

NInf == <<-1, 0>>

NaN == <<0, 0>>

Zero == <<0, 1>>

One == <<1, 1>>

IsNaN(a) == a = NaN

isinf(a) == a[2] = 0 /\ a[1] # 0

IsFinite(a) == a[2] # 0

Neg(a) == <<-a[1], a[2]>>

Add(a, b) ==
  IF IsNaN(a) \/ IsNaN(b) THEN NaN
  ELSE IF a[2] = 0 /\ b[2] = 0 THEN (IF a = b THEN a ELSE NaN)
  ELSE IF a[2] = 0 THEN a
  ELSE IF b[2] = 0 THEN b
  ELSE Norm(a[1] * b[2] + b[1] * a[2], a[2] * b[2])

Sub(a, b) == Add(a, Neg(b))

Mul(a, b) ==
  IF IsNaN(a) \/ IsNaN(b) THEN NaN
  ELSE IF a[2] = 0 \/ b[2] = 0
       THEN (IF a[1] = 0 \/ b[1] = 0 THEN NaN ELSE <<Sgn(a[1]) * Sgn(b[1]), 0>>)
  ELSE Norm(a[1] * b[1], a[2] * b[2])

\* A zero divisor is +0, as a sum or difference of doubles that cancels is.
Div(a, b) ==
  IF IsNaN(a) \/ IsNaN(b) THEN NaN
  ELSE IF b[2] = 0 THEN (IF a[2] = 0 THEN NaN ELSE Zero)
  ELSE IF a[2] = 0 THEN <<a[1] * (IF b[1] < 0 THEN -1 ELSE 1), 0>>
  ELSE IF b[1] = 0 THEN (IF a[1] = 0 THEN NaN ELSE <<Sgn(a[1]), 0>>)
  ELSE Norm(a[1] * b[2], a[2] * b[1])

Lt(a, b) ==
  IF IsNaN(a) \/ IsNaN(b) THEN FALSE
  ELSE IF a = b THEN FALSE
  ELSE IF a[2] = 0 THEN a[1] < 0
  ELSE IF b[2] = 0 THEN b[1] > 0
  ELSE a[1] * b[2] < b[1] * a[2]

Gt(a, b) == Lt(b, a)

Eq(a, b) == ~IsNaN(a) /\ ~IsNaN(b) /\ a = b

Le(a, b) == Lt(a, b) \/ Eq(a, b)

Ge(a, b) == Le(b, a)

fmax(a, b) == IF IsNaN(a) THEN b ELSE IF IsNaN(b) THEN a ELSE IF Lt(a, b) THEN b ELSE a

fmin(a, b) == IF IsNaN(a) THEN b ELSE IF IsNaN(b) THEN a ELSE IF Lt(b, a) THEN b ELSE a

fabs(a) == <<Abs(a[1]), a[2]>>

(***************************************************************************)
(* Dense and sparse primitives (casadi_fill, casadi_dot, casadi_axpy,       *)
(* casadi_scal, casadi_mv, casadi_trans, casadi_bilin).  A matrix is a      *)
(* function row -> column -> value together with its pattern, the set of    *)
(* <<row, column>> pairs that are stored.                                   *)
(***************************************************************************)
Range(n) == 0..(n - 1)

ConstVec(n, v) == [i \in Range(n) |-> v]

\* v[lo] + ... + v[hi - 1]; the exact sum does not depend on the order, and the
\* two halves are added
RECURSIVE SumRange(_, _, _)
SumRange(v, lo, hi) ==
  IF hi <= lo THEN Zero
  ELSE IF hi = lo + 1 THEN v[lo]
  ELSE Add(SumRange(v, lo, (lo + hi) \div 2), SumRange(v, (lo + hi) \div 2, hi))

SumVec(v, n) == SumRange(v, 0, n)

casadi_dot(n, x, y) == SumVec([k \in 0..(n - 1) |-> Mul(x[k], y[k])], n)

\* y + alpha*x on the first n entries of y
casadi_axpy(n, alpha, x, y) ==
  [k \in DOMAIN y |-> IF k < n THEN Add(y[k], Mul(alpha, x[k])) ELSE y[k]]

casadi_scal(n, alpha, x) == [k \in DOMAIN x |-> IF k < n THEN Mul(alpha, x[k]) ELSE x[k]]

\* Entry (r, c) of a stored matrix times v, 0 where nothing is stored
Term(m, sp, r, c, v) == IF <<r, c>> \in sp THEN Mul(m[r][c], v) ELSE Zero

\* (A*x)[r] for A with ncol columns
MvRow(m, sp, ncol, x, r) == SumVec([c \in 0..(ncol - 1) |-> Term(m, sp, r, c, x[c])], ncol)

\* (A^T*x)[c] for A with nrow rows
MvCol(m, sp, nrow, x, c) == SumVec([r \in 0..(nrow - 1) |-> Term(m, sp, r, c, x[r])], nrow)

\* casadi_trans: the values of A^T, nx rows and na columns
casadi_trans(m, nrow, ncol) == [c \in 0..(ncol - 1) |-> [r \in 0..(nrow - 1) |-> m[r][c]]]

\* casadi_bilin: x^T A y over the stored entries
casadi_bilin(m, sp, n, x, y) ==
  SumVec([r \in 0..(n - 1) |-> Mul(x[r], MvRow(m, sp, n, y, r))], n)

(***************************************************************************)
(* casadi_qp_reset                                                         *)
(***************************************************************************)
reset_lam_keep(pp, dd, i, nzero, nupper, nlower) ==
  IF nzero /\ Eq(dd.lam[i], Zero)
  THEN (IF nupper \/ Le(Sub(dd.z[i], dd.lbz[i]), Sub(dd.ubz[i], dd.z[i]))
        THEN Neg(pp.dmin) ELSE pp.dmin)
  ELSE dd.lam[i]

\* Value given to lam[i] by the correction of the initial active set
reset_lam(pp, dd, i, nzero, nupper, nlower) ==
  IF nzero /\ Eq(dd.lam[i], Zero)
  THEN (IF nupper \/ Le(Sub(dd.z[i], dd.lbz[i]), Sub(dd.ubz[i], dd.z[i]))
        THEN Neg(pp.dmin) ELSE pp.dmin)
  ELSE IF nupper /\ Gt(dd.lam[i], Zero) THEN (IF nzero THEN Neg(pp.dmin) ELSE Zero)
  ELSE IF nlower /\ Lt(dd.lam[i], Zero) THEN (IF nzero THEN pp.dmin ELSE Zero)
  ELSE dd.lam[i]

reset_infeasible_free(nzero, nupper, nlower) == nupper /\ nlower

\* The bounds of a row admit no multiplier at all
reset_infeasible(nzero, nupper, nlower) == nzero /\ nupper /\ nlower

RECURSIVE reset_loop(_, _, _)
reset_loop(pp, dd, i) ==
  IF i >= pp.nz
  THEN [ret |-> 0, d |-> [dd EXCEPT !.nz_at = casadi_trans(dd.nz_a, pp.na, pp.nx)]]
  ELSE LET nzero  == Eq(dd.lbz[i], dd.ubz[i])
           nupper == isinf(dd.ubz[i])
           nlower == isinf(dd.lbz[i])
           d1 == [dd EXCEPT !.neverzero[i] = nzero,
                            !.neverupper[i] = nupper,
                            !.neverlower[i] = nlower]
       IN  IF reset_infeasible(nzero, nupper, nlower)
           THEN [ret |-> 1, d |-> d1]
           ELSE reset_loop(pp,
                  [d1 EXCEPT !.lam[i] = reset_lam(pp, dd, i, nzero, nupper, nlower)],
                  i + 1)

casadi_qp_reset(pp, dd) ==
  reset_loop(pp, [dd EXCEPT !.msg = "", !.tau = Zero, !.sing = 0], 0)

(***************************************************************************)
(* casadi_qp_pr, casadi_qp_du                                              *)
(***************************************************************************)
RECURSIVE pr_loop(_, _, _)
pr_loop(pp, dd, i) ==
  IF i >= pp.nz THEN dd
  ELSE IF Gt(dd.z[i], Add(dd.ubz[i], dd.pr))
       THEN pr_loop(pp, [dd EXCEPT !.pr = Sub(dd.z[i], dd.ubz[i]), !.ipr = i], i + 1)
  ELSE IF Lt(dd.z[i], Sub(dd.lbz[i], dd.pr))
       THEN pr_loop(pp, [dd EXCEPT !.pr = Sub(dd.lbz[i], dd.z[i]), !.ipr = i], i + 1)
  ELSE pr_loop(pp, dd, i + 1)

casadi_qp_pr(pp, dd) == pr_loop(pp, [dd EXCEPT !.pr = Zero, !.ipr = -1], 0)

RECURSIVE du_loop_ge(_, _, _)
du_loop_ge(pp, dd, i) ==
  IF i >= pp.nx THEN dd
  ELSE IF Ge(dd.infeas[i], dd.du) /\ Gt(dd.infeas[i], Zero)
       THEN du_loop_ge(pp, [dd EXCEPT !.du = dd.infeas[i], !.idu = i], i + 1)
  ELSE IF Le(dd.infeas[i], Neg(dd.du)) /\ Lt(dd.infeas[i], Zero)
       THEN du_loop_ge(pp, [dd EXCEPT !.du = Neg(dd.infeas[i]), !.idu = i], i + 1)
  ELSE du_loop_ge(pp, dd, i + 1)

RECURSIVE du_loop(_, _, _)
du_loop(pp, dd, i) ==
  IF i >= pp.nx THEN dd
  ELSE IF Gt(dd.infeas[i], dd.du)
       THEN du_loop(pp, [dd EXCEPT !.du = dd.infeas[i], !.idu = i], i + 1)
  ELSE IF Lt(dd.infeas[i], Neg(dd.du))
       THEN du_loop(pp, [dd EXCEPT !.du = Neg(dd.infeas[i]), !.idu = i], i + 1)
  ELSE du_loop(pp, dd, i + 1)

casadi_qp_du(pp, dd) == du_loop(pp, [dd EXCEPT !.du = Zero, !.idu = -1], 0)

(***************************************************************************)
(* casadi_qp_calc_dependent                                                *)
(***************************************************************************)
dep_lam_noclamp(pp, lam_i, infeas_i) ==
  IF Gt(lam_i, Zero) \/ Lt(lam_i, Zero) THEN Neg(infeas_i) ELSE lam_i

\* lam[i], i < nx, recomputed without changing its sign
dep_lam(pp, lam_i, infeas_i) ==
  IF Gt(lam_i, Zero) THEN fmax(Neg(infeas_i), pp.dmin)
  ELSE IF Lt(lam_i, Zero) THEN fmin(Neg(infeas_i), Neg(pp.dmin))
  ELSE lam_i

dep_z_nofill(pp, dd) ==
  [i \in 0..(pp.nz - 1) |->
     IF i < pp.nx THEN dd.z[i]
     ELSE Add(dd.z[i], MvRow(dd.nz_a, pp.sp_a, pp.nx, dd.z, i - pp.nx))]

\* z with z[nx:] = A*z[:nx]
dep_z(pp, dd) ==
  [i \in 0..(pp.nz - 1) |->
     IF i < pp.nx THEN dd.z[i] ELSE MvRow(dd.nz_a, pp.sp_a, pp.nx, dd.z, i - pp.nx)]

casadi_qp_calc_dependent(pp, dd) ==
  LET nx == pp.nx
      x  == dd.z
      f  == Add(Div(casadi_bilin(dd.nz_h, pp.sp_h, nx, x, x), Q(2)), casadi_dot(nx, x, dd.g))
      z1 == dep_z(pp, dd)
      lama == [r \in 0..(pp.na - 1) |-> dd.lam[nx + r]]
      grad == [i \in 0..(nx - 1) |->
                 Add(Add(dd.g[i], MvRow(dd.nz_h, pp.sp_h, nx, x, i)),
                     MvCol(dd.nz_a, pp.sp_a, pp.na, lama, i))]
      lam1 == [i \in 0..(pp.nz - 1) |->
                 IF i < nx THEN dep_lam(pp, dd.lam[i], grad[i]) ELSE dd.lam[i]]
      inf1 == [i \in 0..(nx - 1) |-> Add(grad[i], lam1[i])]
  IN  casadi_qp_du(pp, casadi_qp_pr(pp,
        [dd EXCEPT !.f = f, !.z = z1, !.lam = lam1, !.infeas = inf1]))

(***************************************************************************)
(* casadi_qp_take_step                                                     *)
(***************************************************************************)
SignOf(a) == IF Gt(a, Zero) THEN 1 ELSE IF Lt(a, Zero) THEN -1 ELSE 0

step_clamp_none(pp, s1, l) == IF s1 = 0 THEN Zero ELSE l

\* Ensure correct sign: lam[i] of sign s1 is kept at least dmin away from zero
step_clamp(pp, s1, l) ==
  IF s1 = -1 THEN fmin(l, Neg(pp.dmin))
  ELSE IF s1 = 1 THEN fmax(l, pp.dmin)
  ELSE Zero

step_lam_free(pp, nzero, s, l) ==
  LET s1 == IF (IF s < 0 THEN Gt(l, Zero) ELSE Lt(l, Zero)) THEN -s ELSE s
  IN  IF s1 = -1 THEN fmin(l, Neg(pp.dmin))
      ELSE IF s1 = 1 THEN fmax(l, pp.dmin)
      ELSE Zero

\* lam[i] after the step: s is the sign before it, l the value lam + tau*dlam
step_lam(pp, nzero, s, l) ==
  step_clamp(pp, IF nzero /\ (IF s < 0 THEN Gt(l, Zero) ELSE Lt(l, Zero)) THEN -s ELSE s, l)

casadi_qp_take_step(pp, dd) ==
  LET z1 == casadi_axpy(pp.nz, dd.tau, dd.dz, dd.z)
      l1 == casadi_axpy(pp.nz, dd.tau, dd.dlam, dd.lam)
  IN  [dd EXCEPT !.z = z1,
                 !.lam = [i \in 0..(pp.nz - 1) |->
                            step_lam(pp, dd.neverzero[i], SignOf(dd.lam[i]), l1[i])]]

(***************************************************************************)
(* casadi_qp_zero_blocking, casadi_qp_primal_blocking                      *)
(* Tests of the form fabs(v) < 1e-12 (1e-14, 1e-16) absorb round-off; in   *)
(* exact arithmetic they are tests for v = 0.                              *)
(***************************************************************************)
Small(v) == Eq(v, Zero)

\* r is [ret, index, sign, msg]; dz_max stays 0 throughout the loop
RECURSIVE zb_loop(_, _, _, _, _)
zb_loop(pp, dd, e, i, r) ==
  IF i >= pp.nz THEN r
  ELSE IF Gt(Neg(dd.dz[i]), Zero) /\ Le(dd.z[i], Sub(dd.lbz[i], e))
       THEN zb_loop(pp, dd, e, i + 1,
                    [ret |-> 1, index |-> i, sign |-> -1, msg |-> "lbz violated at 0"])
  ELSE IF Gt(dd.dz[i], Zero) /\ Ge(dd.z[i], Add(dd.ubz[i], e))
       THEN zb_loop(pp, dd, e, i + 1,
                    [ret |-> 1, index |-> i, sign |-> 1, msg |-> "ubz violated at 0"])
  ELSE zb_loop(pp, dd, e, i + 1, r)

casadi_qp_zero_blocking(pp, dd, e, idx, sgn) ==
  zb_loop(pp, dd, e, 0, [ret |-> 0, index |-> idx, sign |-> sgn, msg |-> dd.msg])

step_to_lbz_slip(dd, e, i) == Div(Sub(Add(dd.z[i], e), dd.lbz[i]), dd.dz[i])

\* Step at which z[i] reaches lbz[i]-e
step_to_lbz(dd, e, i) == Div(Sub(Sub(dd.lbz[i], e), dd.z[i]), dd.dz[i])

\* Step at which z[i] reaches ubz[i]+e
step_to_ubz(dd, e, i) == Div(Sub(Add(dd.ubz[i], e), dd.z[i]), dd.dz[i])

\* The row itself, whatever the sign of its multiplier
pb_blocker_row(dd, i, sgn) == i

\* The blocking row, or -1 when lam[i] already has the sign of the bound that is hit
pb_blocker(dd, i, sgn) ==
  IF (IF sgn < 0 THEN Lt(dd.lam[i], Zero) ELSE Gt(dd.lam[i], Zero)) THEN -1 ELSE i

\* r is [tau, index, sign, msg]
RECURSIVE pb_loop(_, _, _, _, _)
pb_loop(pp, dd, e, i, r) ==
  IF i >= pp.nz THEN r
  ELSE IF Eq(dd.dz[i], Zero) THEN pb_loop(pp, dd, e, i + 1, r)
  ELSE LET trial_z == Add(dd.z[i], Mul(r.tau, dd.dz[i]))
           r1 == IF Lt(dd.dz[i], Zero) /\ Lt(trial_z, Sub(dd.lbz[i], e))
                 THEN [tau |-> step_to_lbz(dd, e, i),
                       index |-> pb_blocker(dd, i, -1),
                       sign |-> -1, msg |-> "Enforcing lbz"]
                 ELSE IF Gt(dd.dz[i], Zero) /\ Gt(trial_z, Add(dd.ubz[i], e))
                 THEN [tau |-> step_to_ubz(dd, e, i),
                       index |-> pb_blocker(dd, i, 1),
                       sign |-> 1, msg |-> "Enforcing ubz"]
                 ELSE r
       IN  IF Le(r1.tau, Zero) THEN r1 ELSE pb_loop(pp, dd, e, i + 1, r1)

\* The result is [d, index, sign]
casadi_qp_primal_blocking(pp, dd, e, idx, sgn) ==
  LET zb == casadi_qp_zero_blocking(pp, dd, e, idx, sgn)
  IN  IF zb.ret = 1
      THEN [d |-> [dd EXCEPT !.tau = Zero, !.msg = zb.msg], index |-> zb.index, sign |-> zb.sign]
      ELSE LET r == pb_loop(pp, dd, e, 0,
                            [tau |-> dd.tau, index |-> idx, sign |-> sgn, msg |-> dd.msg])
           IN  [d |-> [dd EXCEPT !.tau = r.tau, !.msg = r.msg],
                index |-> r.index, sign |-> r.sign]

(***************************************************************************)
(* casadi_qp_dual_breakpoints, casadi_qp_dual_blocking                     *)
(* The list is a sequence of <<tau, index>> pairs.                         *)
(***************************************************************************)
\* First position (0-based) before the last whose tau is new_tau or more
RECURSIVE bp_loc_le(_, _, _)
bp_loc_le(list, new_tau, loc) ==
  IF loc >= Len(list) - 1 THEN loc
  ELSE IF Le(new_tau, list[loc + 1][1]) THEN loc
  ELSE bp_loc_le(list, new_tau, loc + 1)

\* First position (0-based) before the last whose tau exceeds new_tau
RECURSIVE bp_loc(_, _, _)
bp_loc(list, new_tau, loc) ==
  IF loc >= Len(list) - 1 THEN loc
  ELSE IF Lt(new_tau, list[loc + 1][1]) THEN loc
  ELSE bp_loc(list, new_tau, loc + 1)

bp_insert(list, loc, entry) ==
  [j \in 1..(Len(list) + 1) |->
     IF j <= loc THEN list[j] ELSE IF j = loc + 1 THEN entry ELSE list[j - 1]]

RECURSIVE bp_loop(_, _, _, _, _)
bp_loop(pp, dd, tau, i, list) ==
  IF i >= pp.nz THEN list
  ELSE IF Eq(dd.dlam[i], Zero) \/ Eq(dd.lam[i], Zero) THEN bp_loop(pp, dd, tau, i + 1, list)
  ELSE LET trial_lam == Add(dd.lam[i], Mul(tau, dd.dlam[i]))
       IN  IF (IF Gt(dd.lam[i], Zero) THEN Ge(trial_lam, Zero) ELSE Le(trial_lam, Zero))
           THEN bp_loop(pp, dd, tau, i + 1, list)
           ELSE LET new_tau == Div(Neg(dd.lam[i]), dd.dlam[i])
                IN  bp_loop(pp, dd, tau, i + 1,
                            bp_insert(list, bp_loc(list, new_tau, 0), <<new_tau, i>>))

casadi_qp_dual_breakpoints(pp, dd, e, tau) == bp_loop(pp, dd, tau, 0, << <<tau, -1>> >>)

\* Scan of the dual infeasibilities over one interval; r is [tau, du_index]
RECURSIVE db_scan(_, _, _, _, _, _, _)
db_scan(pp, dd, e, tau_k, dtau, k, r) ==
  IF k >= pp.nx THEN r
  ELSE LET new_infeas == Add(dd.infeas[k], Mul(dtau, dd.tinfeas[k]))
       IN  IF Gt(fabs(new_infeas), e)
           THEN LET tau1 == fmax(Zero,
                              Add(tau_k,
                                  Div(Sub(IF Gt(new_infeas, Zero) THEN e ELSE Neg(e),
                                          dd.infeas[k]),
                                      dd.tinfeas[k])))
                IN  IF Lt(tau1, r.tau)
                    THEN db_scan(pp, dd, e, tau_k, dtau, k + 1, [tau |-> tau1, du_index |-> k])
                    ELSE db_scan(pp, dd, e, tau_k, dtau, k + 1, r)
           ELSE db_scan(pp, dd, e, tau_k, dtau, k + 1, r)

\* tinfeas left as it is when lam[i] becomes zero
db_tinfeas_keep(pp, dd, i) == dd.tinfeas

\* tinfeas once lam[i] has become zero
db_tinfeas(pp, dd, i) ==
  IF i < pp.nx
  THEN [dd.tinfeas EXCEPT ![i] = Sub(dd.tinfeas[i], dd.dlam[i])]
  ELSE [k \in Range(pp.nx) |->
          IF <<i - pp.nx, k>> \in pp.sp_a
          THEN Sub(dd.tinfeas[k], Mul(dd.nz_at[k][i - pp.nx], dd.dlam[i]))
          ELSE dd.tinfeas[k]]

\* The result is [d, du_index]
RECURSIVE db_loop(_, _, _, _, _, _)
db_loop(pp, dd, e, list, j, tau_k) ==
  IF j > Len(list) THEN [d |-> dd, du_index |-> -1]
  ELSE LET dtau == Sub(list[j][1], tau_k)
           r == db_scan(pp, dd, e, tau_k, dtau, 0, [tau |-> dd.tau, du_index |-> -1])
           d1 == [dd EXCEPT !.tau = r.tau,
                            !.infeas = casadi_axpy(pp.nx, fmin(Sub(r.tau, tau_k), dtau),
                                                   dd.tinfeas, dd.infeas)]
           i == list[j][2]
       IN  IF r.du_index >= 0 THEN [d |-> d1, du_index |-> r.du_index]
           ELSE IF i < 0 THEN [d |-> d1, du_index |-> -1]
           ELSE db_loop(pp,
                        IF d1.neverzero[i] THEN d1
                        ELSE [d1 EXCEPT !.tinfeas = db_tinfeas(pp, d1, i)],
                        e, list, j + 1, list[j][1])

casadi_qp_dual_blocking(pp, dd, e) ==
  db_loop(pp, dd, e, casadi_qp_dual_breakpoints(pp, dd, e, dd.tau), 1, Zero)

(***************************************************************************)
(* casadi_qp_linesearch                                                    *)
(***************************************************************************)
\* The step is taken; a dual blocking constraint withdraws the primal one
ls_take_step(pp, pb, db) ==
  [d |-> casadi_qp_take_step(pp, db.d),
   index |-> IF db.du_index >= 0 THEN -1 ELSE pb.index,
   sign |-> IF db.du_index >= 0 THEN 0 ELSE pb.sign]

ls_dual(pp, dd, pb) ==
  ls_take_step(pp, pb,
               casadi_qp_dual_blocking(pp, pb.d, fmax(Mul(dd.pr, pp.du_to_pr), dd.du)))

\* The result is [d, index, sign]
casadi_qp_linesearch(pp, dd) ==
  ls_dual(pp, dd,
          casadi_qp_primal_blocking(pp, [dd EXCEPT !.tau = One],
                                    fmax(dd.pr, Div(dd.du, pp.du_to_pr)), -1, 0))

(***************************************************************************)
(* Columns of the KKT matrix                                               *)
(***************************************************************************)
\* Stored entry (r, c) of a matrix, 0 where nothing is stored
Entry(m, sp, r, c) == IF <<r, c>> \in sp THEN m[r][c] ELSE Zero

\* Column i < nx of H stacked on column i of A
HA_column(pp, dd, i) ==
  [j \in Range(pp.nz) |->
     IF j < pp.nx THEN Entry(dd.nz_h, pp.sp_h, j, i)
     ELSE Entry(dd.nz_a, pp.sp_a, j - pp.nx, i)]

\* Column i - nx of A^T, i >= nx, on the rows of x
AT_column(pp, dd, i) ==
  [j \in Range(pp.nz) |->
     IF j < pp.nx /\ <<i - pp.nx, j>> \in pp.sp_a THEN dd.nz_at[j][i - pp.nx] ELSE Zero]

Unit(n, i, v) == [j \in Range(n) |-> IF j = i THEN v ELSE Zero]

casadi_qp_kkt_column(pp, dd, i, sgn) ==
  IF i < pp.nx
  THEN (IF sgn = 0 THEN HA_column(pp, dd, i) ELSE Unit(pp.nz, i, One))
  ELSE (IF sgn = 0 THEN Unit(pp.nz, i, Neg(One)) ELSE AT_column(pp, dd, i))

casadi_qp_kkt_vector(pp, dd, i) ==
  LET c == IF i < pp.nx THEN HA_column(pp, dd, i)
           ELSE [j \in Range(pp.nz) |-> Neg(AT_column(pp, dd, i)[j])]
  IN  [c EXCEPT ![i] = Sub(c[i], One)]

casadi_qp_kkt_dot(pp, dd, v, i, sgn) ==
  IF i < pp.nx
  THEN (IF sgn = 0
        THEN Add(SumVec([k \in Range(pp.nx) |-> Term(dd.nz_h, pp.sp_h, k, i, v[k])], pp.nx),
                 SumVec([k \in Range(pp.na) |-> Term(dd.nz_a, pp.sp_a, k, i, v[pp.nx + k])],
                        pp.na))
        ELSE v[i])
  ELSE (IF sgn = 0 THEN Neg(v[i])
        ELSE SumVec([k \in Range(pp.nx) |->
                       IF <<i - pp.nx, k>> \in pp.sp_a
                       THEN Mul(v[k], dd.nz_at[k][i - pp.nx]) ELSE Zero], pp.nx))

casadi_qp_kkt_dot2(pp, dd, v, i) ==
  IF i < pp.nx
  THEN Sub(v[i],
           Add(SumVec([k \in Range(pp.nx) |-> Term(dd.nz_h, pp.sp_h, k, i, v[k])], pp.nx),
               SumVec([k \in Range(pp.na) |-> Term(dd.nz_a, pp.sp_a, k, i, v[pp.nx + k])],
                      pp.na)))
  ELSE Add(v[i],
           SumVec([k \in Range(pp.nx) |->
                     IF <<i - pp.nx, k>> \in pp.sp_a
                     THEN Mul(v[k], dd.nz_at[k][i - pp.nx]) ELSE Zero], pp.nx))

\* casadi_qp_kkt.  The scratch vector w after the entries of column i have been
\* copied into it: the stored entries of H and A, or of A^T, or the diagonal entry
kkt_copy(pp, dd, w, i) ==
  IF i < pp.nx
  THEN (IF Eq(dd.lam[i], Zero)
        THEN [j \in Range(pp.nz) |->
                IF j < pp.nx /\ <<j, i>> \in pp.sp_h THEN dd.nz_h[j][i]
                ELSE IF j >= pp.nx /\ <<j - pp.nx, i>> \in pp.sp_a THEN dd.nz_a[j - pp.nx][i]
                ELSE w[j]]
        ELSE [w EXCEPT ![i] = One])
  ELSE (IF Eq(dd.lam[i], Zero)
        THEN [w EXCEPT ![i] = Neg(One)]
        ELSE [j \in Range(pp.nz) |->
                IF j < pp.nx /\ <<i - pp.nx, j>> \in pp.sp_a THEN dd.nz_at[j][i - pp.nx]
                ELSE w[j]])

\* Column i of nz_kkt: the entries of w on the pattern of column i of sp_kkt
kkt_gather(pp, w, i) ==
  [j \in Range(pp.nz) |-> IF <<j, i>> \in pp.sp_kkt THEN w[j] ELSE Zero]

\* w is left as it is
kkt_clear_none(pp, w, i) == w

\* w with the entries on the pattern of column i set to zero again
kkt_clear(pp, w, i) ==
  [j \in Range(pp.nz) |-> IF <<j, i>> \in pp.sp_kkt THEN Zero ELSE w[j]]

\* The scratch vector w when the loop over the columns reaches column i
RECURSIVE kkt_loop(_, _, _)
kkt_loop(pp, dd, i) ==
  IF i = 0 THEN ConstVec(pp.nz, Zero)
  ELSE kkt_clear(pp, kkt_copy(pp, dd, kkt_loop(pp, dd, i - 1), i - 1), i - 1)

\* The result is [nz_kkt, w]
kkt_assemble(pp, dd) ==
  [nz_kkt |-> [i \in Range(pp.nz) |->
                 kkt_gather(pp, kkt_copy(pp, dd, kkt_loop(pp, dd, i), i), i)],
   w |-> kkt_loop(pp, dd, pp.nz)]

casadi_qp_kkt(pp, dd) == kkt_assemble(pp, dd).nz_kkt

casadi_qp_kkt_residual(pp, dd) ==
  [i \in Range(pp.nz) |->
     IF Gt(dd.lam[i], Zero) THEN Sub(dd.ubz[i], dd.z[i])
     ELSE IF Lt(dd.lam[i], Zero) THEN Sub(dd.lbz[i], dd.z[i])
     ELSE IF i < pp.nx THEN Sub(dd.lam[i], dd.infeas[i])
     ELSE dd.lam[i]]

(***************************************************************************)
(* The QR engine (casadi_qr, casadi_qr_singular, casadi_qr_solve), exact:  *)
(* the factorised matrix is kept, a solve is the solution of the system,   *)
(* and the matrix is singular when its determinant is 0.                   *)
(***************************************************************************)
Without(sq, k) == [j \in 1..(Len(sq) - 1) |-> IF j < k THEN sq[j] ELSE sq[j + 1]]

\* Determinant of the matrix m[row][column] on rows rs and columns cs
\* (expansion along the first row, over its nonzero entries ks, which are positions
\* in cs)
RECURSIVE Det(_, _, _), DetTerms(_, _, _, _)
DetTerms(m, rs, cs, ks) ==
  IF ks = {} THEN Zero
  ELSE LET k == CHOOSE j \in ks : \A l \in ks : j <= l
           minor == Det(m, Tail(rs), Without(cs, k))
           rest == DetTerms(m, rs, cs, ks \ {k})
       IN  IF IsNaN(minor) \/ IsNaN(rest) THEN NaN
           ELSE Add(Mul(Mul(IF k % 2 = 1 THEN One ELSE Neg(One), m[rs[1]][cs[k]]), minor),
                    rest)

Det(m, rs, cs) ==
  IF Len(rs) = 0 THEN One
  ELSE DetTerms(m, rs, cs, {k \in 1..Len(cs) : m[rs[1]][cs[k]] # Zero})

Iota(n) == [j \in 1..n |-> j - 1]

\* The matrix with entry (r, c) for the stored columns kkt, transposed when tr = 1
AsMatrix(kkt, n, tr) ==
  [r \in Range(n) |-> [c \in Range(n) |-> IF tr = 1 THEN kkt[r][c] ELSE kkt[c][r]]]

casadi_qr_singular(kkt, n) == IF Det(AsMatrix(kkt, n, 0), Iota(n), Iota(n)) = Zero THEN 1 ELSE 0

\* x with A x = b (tr = 0) or A^T x = b (tr = 1), A given by its columns kkt
casadi_qr_solve(kkt, n, b, tr) ==
  LET m == AsMatrix(kkt, n, tr)
      dt == Det(m, Iota(n), Iota(n))
  IN  [j \in Range(n) |->
         Div(Det([r \in Range(n) |-> [c \in Range(n) |-> IF c = j THEN b[r] ELSE m[r][c]]],
                 Iota(n), Iota(n)),
             dt)]

casadi_qp_factorize(pp, dd) ==
  LET kkt == casadi_qp_kkt(pp, dd)
  IN  [dd EXCEPT !.nz_kkt = kkt, !.sing = casadi_qr_singular(kkt, pp.nz)]

(***************************************************************************)
(* casadi_qp_pr_index, casadi_qp_du_check, casadi_qp_du_index              *)
(***************************************************************************)
\* The most violating row proposed for its upper bound, whichever bound it violates
casadi_qp_pr_index_upper(pp, dd, sgn) ==
  IF Eq(dd.lam[dd.ipr], Zero)
  THEN [index |-> dd.ipr, sign |-> 1, msg |-> "Added to reduce |pr|"]
  ELSE [index |-> -1, sign |-> sgn, msg |-> dd.msg]

\* The result is [index, sign, msg]
casadi_qp_pr_index(pp, dd, sgn) ==
  IF Eq(dd.lam[dd.ipr], Zero)
  THEN [index |-> dd.ipr,
        sign |-> IF Lt(dd.z[dd.ipr], dd.lbz[dd.ipr]) THEN -1 ELSE 1,
        msg |-> "Added to reduce |pr|"]
  ELSE [index |-> -1, sign |-> sgn, msg |-> dd.msg]

RECURSIVE MaxVec(_, _)
MaxVec(v, n) == IF n = 0 THEN Zero ELSE fmax(MaxVec(v, n - 1), v[n - 1])

casadi_qp_du_check(pp, dd, i) ==
  IF i < pp.nx THEN fabs(Sub(dd.infeas[i], dd.lam[i]))
  ELSE MaxVec([k \in Range(pp.nx) |->
                 IF <<i - pp.nx, k>> \in pp.sp_a
                 THEN fabs(Sub(dd.infeas[k], Mul(dd.nz_at[k][i - pp.nx], dd.lam[i])))
                 ELSE Zero], pp.nx)

\* Sensitivity of infeas[idu] to the multipliers
du_sensitivity(pp, dd) ==
  LET wx == [k \in Range(pp.nx) |->
               IF k = dd.idu THEN (IF Gt(dd.infeas[dd.idu], Zero) THEN Neg(One) ELSE One)
               ELSE Zero]
  IN  [i \in Range(pp.nz) |->
         IF i < pp.nx THEN wx[i] ELSE MvRow(dd.nz_a, pp.sp_a, pp.nx, wx, i - pp.nx)]

\* As good as the best so far
du_better_or_equal(w_i, best_w) == Ge(fabs(w_i), best_w)

\* Better than the best so far
du_better(w_i, best_w) == Gt(fabs(w_i), best_w)

\* r is [best_ind, best_w]
RECURSIVE du_index_loop(_, _, _, _, _)
du_index_loop(pp, dd, w, i, r) ==
  IF i >= pp.nz THEN r
  ELSE IF Eq(w[i], Zero) THEN du_index_loop(pp, dd, w, i + 1, r)
  ELSE IF (IF Gt(w[i], Zero) THEN Ge(dd.lam[i], Zero) ELSE Le(dd.lam[i], Zero))
       THEN du_index_loop(pp, dd, w, i + 1, r)
  ELSE IF Gt(casadi_qp_du_check(pp, dd, i), dd.du) THEN du_index_loop(pp, dd, w, i + 1, r)
  ELSE IF du_better(w[i], r.best_w)
       THEN du_index_loop(pp, dd, w, i + 1, [best_ind |-> i, best_w |-> fabs(w[i])])
  ELSE du_index_loop(pp, dd, w, i + 1, r)

\* The result is [index, sign, msg]
casadi_qp_du_index(pp, dd, sgn) ==
  LET r == du_index_loop(pp, dd, du_sensitivity(pp, dd), 0, [best_ind |-> -1, best_w |-> Zero])
  IN  IF r.best_ind >= 0
      THEN [index |-> r.best_ind, sign |-> 0, msg |-> "Removed to reduce |du|"]
      ELSE [index |-> -1, sign |-> sgn, msg |-> dd.msg]

(***************************************************************************)
(* casadi_qr_colcomb, exact: a nonzero combination v of the columns of the *)
(* matrix with M v = 0.  When the nullity is 1 every such v is a multiple  *)
(* of a nonzero column of the adjugate, and what casadi_qp_scale_step      *)
(* makes of v does not depend on its scale or orientation.                 *)
(***************************************************************************)
Minor(m, n, r, c) == Det(m, Without(Iota(n), r + 1), Without(Iota(n), c + 1))

AdjColumn(m, n, j) ==
  [i \in Range(n) |->
     Mul(IF (i + j) % 2 = 0 THEN One ELSE Neg(One), Minor(m, n, j, i))]

\* Number of independent null vectors, as far as the model tells them apart: 0, 1, or 2 for more
casadi_qr_nullity(kkt, n, tr) ==
  LET m == AsMatrix(kkt, n, tr)
  IN  IF Det(m, Iota(n), Iota(n)) # Zero THEN 0
      ELSE IF \E j \in Range(n) : AdjColumn(m, n, j) # ConstVec(n, Zero) THEN 1
      ELSE 2

casadi_qr_colcomb(kkt, n, tr) ==
  LET m == AsMatrix(kkt, n, tr)
      j == CHOOSE j \in Range(n) :
             /\ AdjColumn(m, n, j) # ConstVec(n, Zero)
             /\ \A k \in Range(n) : k < j => AdjColumn(m, n, k) = ConstVec(n, Zero)
  IN  AdjColumn(m, n, j)

(***************************************************************************)
(* casadi_qp_scale_step                                                    *)
(***************************************************************************)
\* Whether a step tau_test along the direction increases max(pr, du)
ss_increases(terr, tau_test) ==
  (Gt(terr, Zero) /\ Gt(tau_test, Zero)) \/ (Lt(terr, Zero) /\ Lt(tau_test, Zero))

\* As good as the best so far
ss_best_or_equal(r, tau_test, i, sgn, msg) ==
  IF Le(fabs(tau_test), fabs(r.tau))
  THEN [tau |-> tau_test, r_index |-> i, r_sign |-> sgn, msg |-> msg]
  ELSE r

\* Best so far: r is [tau, r_index, r_sign, msg]
ss_best(r, tau_test, i, sgn, msg) ==
  IF Lt(fabs(tau_test), fabs(r.tau))
  THEN [tau |-> tau_test, r_index |-> i, r_sign |-> sgn, msg |-> msg]
  ELSE r

\* Enforcing a bound of the inactive row i, the bound being at distance dist
ss_enforce(dd, terr, r, i, never, dist, sgn, msg) ==
  IF never THEN r
  ELSE LET tau_test == Div(dist, dd.dz[i])
       IN  IF ss_increases(terr, tau_test) \/ Small(tau_test) THEN r
           ELSE ss_best(r, tau_test, i, sgn, msg)

\* Dropping the active row i
ss_drop(dd, terr, pos_ok, neg_ok, r, i) ==
  IF dd.neverzero[i] THEN r
  ELSE LET tau_test == Div(Neg(dd.lam[i]), dd.dlam[i])
       IN  IF ss_increases(terr, tau_test) THEN r
           ELSE IF (Gt(tau_test, Zero) /\ ~pos_ok) \/ (Lt(tau_test, Zero) /\ ~neg_ok) THEN r
           ELSE ss_best(r, tau_test, i, 0, "Dropped for regularity")

RECURSIVE ss_loop(_, _, _, _, _, _, _, _)
ss_loop(pp, dd, w, terr, pos_ok, neg_ok, i, r) ==
  IF i >= pp.nz THEN r
  ELSE IF Small(IF i < pp.nx THEN dd.dz[i] ELSE dd.dlam[i])
       THEN ss_loop(pp, dd, w, terr, pos_ok, neg_ok, i + 1, r)
  ELSE IF Small(casadi_qp_kkt_dot2(pp, dd, w, i))
       THEN ss_loop(pp, dd, w, terr, pos_ok, neg_ok, i + 1, r)
  ELSE IF Eq(dd.lam[i], Zero)
       THEN IF Small(dd.dz[i]) THEN ss_loop(pp, dd, w, terr, pos_ok, neg_ok, i + 1, r)
            ELSE LET r1 == ss_enforce(dd, terr, r, i, dd.neverlower[i],
                                      Sub(dd.lbz[i], dd.z[i]), -1,
                                      "Enforced lbz for regularity")
                     r2 == ss_enforce(dd, terr, r1, i, dd.neverupper[i],
                                      Sub(dd.ubz[i], dd.z[i]), 1,
                                      "Enforced ubz for regularity")
                 IN  ss_loop(pp, dd, w, terr, pos_ok, neg_ok, i + 1, r2)
  ELSE IF Small(dd.dlam[i]) THEN ss_loop(pp, dd, w, terr, pos_ok, neg_ok, i + 1, r)
  ELSE ss_loop(pp, dd, w, terr, pos_ok, neg_ok, i + 1,
               ss_drop(dd, terr, pos_ok, neg_ok, r, i))

\* Change in max(pr, du) along the direction: [terr, pos_ok, neg_ok]
ss_terr(pp, dd) ==
  LET tpr == IF dd.ipr < 0 THEN Zero
             ELSE IF Gt(dd.z[dd.ipr], dd.ubz[dd.ipr]) THEN Div(dd.dz[dd.ipr], dd.pr)
             ELSE Div(Neg(dd.dz[dd.ipr]), dd.pr)
      tdu == IF dd.idu < 0 THEN Zero ELSE Div(dd.tinfeas[dd.idu], dd.infeas[dd.idu])
      t == IF Gt(dd.pr, dd.du)
           THEN [terr |-> tpr, pos_ok |-> ~Gt(tpr, Zero),
                 neg_ok |-> ~Lt(tpr, Zero)]
           ELSE IF Lt(dd.pr, dd.du)
           THEN [terr |-> tdu, pos_ok |-> ~Gt(tdu, Zero),
                 neg_ok |-> ~Lt(tdu, Zero)]
           ELSE IF (Gt(tpr, Zero) /\ Lt(tdu, Zero)) \/ (Lt(tpr, Zero) /\ Gt(tdu, Zero))
           THEN [terr |-> Zero, pos_ok |-> FALSE, neg_ok |-> FALSE]
           ELSE IF Lt(fmin(tpr, tdu), Zero)
           THEN [terr |-> fmax(tpr, tdu), pos_ok |-> TRUE, neg_ok |-> FALSE]
           ELSE IF Gt(fmax(tpr, tdu), Zero)
           THEN [terr |-> fmin(tpr, tdu), pos_ok |-> FALSE, neg_ok |-> TRUE]
           ELSE [terr |-> Zero, pos_ok |-> TRUE, neg_ok |-> TRUE]
  IN  IF Ge(Mul(pp.du_to_pr, dd.pr), dd.du) /\ ~Eq(dd.lam[dd.ipr], Zero)
         /\ ~Small(dd.dlam[dd.ipr])
      THEN IF Gt(dd.lam[dd.ipr], Zero) = Gt(dd.dlam[dd.ipr], Zero)
           THEN [t EXCEPT !.neg_ok = FALSE]
           ELSE [t EXCEPT !.pos_ok = FALSE]
      ELSE t

\* Best flip over the null vectors of the transposed KKT; t is [terr, pos_ok, neg_ok]
ss_search(pp, dd, t) ==
  IF casadi_qr_nullity(dd.nz_kkt, pp.nz, 0) = 0
  THEN [tau |-> pp.inf, r_index |-> -1, r_sign |-> 0, msg |-> dd.msg]
  ELSE ss_loop(pp, dd, casadi_qr_colcomb(dd.nz_kkt, pp.nz, 0), t.terr, t.pos_ok, t.neg_ok, 0,
               [tau |-> pp.inf, r_index |-> -1, r_sign |-> 0, msg |-> dd.msg])

\* The step scaled by the tau of the best flip r, if there is one
ss_scale(pp, dd, r) ==
  IF r.r_index < 0
  THEN [ret |-> 1, d |-> dd, r_index |-> -1, r_sign |-> 0]
  ELSE [ret |-> 0,
        d |-> [dd EXCEPT !.dz = casadi_scal(pp.nz, r.tau, dd.dz),
                         !.dlam = casadi_scal(pp.nz, r.tau, dd.dlam),
                         !.tinfeas = casadi_scal(pp.nx, r.tau, dd.tinfeas),
                         !.msg = r.msg],
        r_index |-> r.r_index, r_sign |-> r.r_sign]

\* nz_kkt becomes its transpose, which is factorized in place
ss_transposed(pp, dd) ==
  [dd EXCEPT !.nz_kkt = [c \in Range(pp.nz) |-> [r \in Range(pp.nz) |-> dd.nz_kkt[r][c]]]]

ss_singular(pp, dd, t) == ss_scale(pp, dd, ss_search(pp, dd, t))

\* The result is [ret, d, r_index, r_sign]
casadi_qp_scale_step(pp, dd) ==
  IF dd.sing = 0 THEN [ret |-> 0, d |-> dd, r_index |-> -1, r_sign |-> 0]
  ELSE ss_singular(pp, ss_transposed(pp, dd), ss_terr(pp, dd))

(***************************************************************************)
(* casadi_qp_calc_step                                                     *)
(***************************************************************************)
\* Step in z[:nx] and lam[nx:]
cs_solve(pp, dd) ==
  IF dd.sing = 0
  THEN casadi_qr_solve(dd.nz_kkt, pp.nz, casadi_qp_kkt_residual(pp, dd), 1)
  ELSE casadi_qr_colcomb(dd.nz_kkt, pp.nz, 0)

\* H*dz[:nx] + A^T*dz[nx:]
cs_gradient(pp, dd, v, i) ==
  Add(MvRow(dd.nz_h, pp.sp_h, pp.nx, v, i),
      MvCol(dd.nz_a, pp.sp_a, pp.na, [k \in Range(pp.na) |-> v[pp.nx + k]], i))

\* Step in lam[:nx], zero for inactive bounds
cs_dlam(pp, dd, v) ==
  [i \in Range(pp.nx) |->
     IF Eq(dd.lam[i], Zero) THEN Zero ELSE Neg(cs_gradient(pp, dd, v, i))]

cs_step(pp, dd, v, dlx) ==
  [dd EXCEPT
     !.dz = [i \in Range(pp.nz) |->
               IF i < pp.nx THEN v[i] ELSE MvRow(dd.nz_a, pp.sp_a, pp.nx, v, i - pp.nx)],
     !.dlam = [i \in Range(pp.nz) |-> IF i < pp.nx THEN dlx[i] ELSE v[i]],
     !.tinfeas = [i \in Range(pp.nx) |-> Add(cs_gradient(pp, dd, v, i), dlx[i])]]

cs_direction(pp, dd, v) == cs_step(pp, dd, v, cs_dlam(pp, dd, v))

\* The result is [ret, d, r_index, r_sign]
casadi_qp_calc_step(pp, dd) == casadi_qp_scale_step(pp, cs_direction(pp, dd, cs_solve(pp, dd)))

(***************************************************************************)
(* casadi_qp_flip_check, casadi_qp_flip                                    *)
(* The scalings by 1/sqrt(v.v) leave every test against zero unchanged and *)
(* are not applied, except that a zero vector scaled by 1/0 becomes NaN.   *)
(***************************************************************************)
fc_normalize(n, v) == IF Eq(casadi_dot(n, v, v), Zero) THEN ConstVec(n, NaN) ELSE v

\* Rows exempt from the test on the column being removed
fc_exempt(i) == i = 12

\* A candidate that has been printed is taken if it is the best so far;
\* r is [r_index, r_lam, best_duerr, out]
fc_candidate(pp, dd, w, i, r) ==
  IF ~fc_exempt(i) /\ Small(casadi_qp_kkt_dot(pp, dd, w, i, 0)) THEN r
  ELSE IF Lt(casadi_qp_du_check(pp, dd, i), r.best_duerr)
       THEN [r EXCEPT !.r_index = i, !.r_lam = Zero,
                      !.best_duerr = casadi_qp_du_check(pp, dd, i)]
  ELSE r

\* r is [r_index, r_lam, best_duerr, out]; out counts the lines printed
RECURSIVE fc_loop(_, _, _, _, _, _)
fc_loop(pp, dd, w, idx, i, r) ==
  IF i >= pp.nz THEN r
  ELSE IF i = idx THEN fc_loop(pp, dd, w, idx, i + 1, r)
  ELSE IF (IF Eq(dd.lam[i], Zero) THEN dd.neverlower[i] /\ dd.neverupper[i]
           ELSE dd.neverzero[i])
       THEN fc_loop(pp, dd, w, idx, i + 1, r)
  ELSE IF Small(dd.dz[i]) THEN fc_loop(pp, dd, w, idx, i + 1, r)
  ELSE IF Small(casadi_qp_kkt_dot2(pp, dd, dd.dlam, i)) THEN fc_loop(pp, dd, w, idx, i + 1, r)
  ELSE IF Eq(dd.lam[i], Zero) THEN fc_loop(pp, dd, w, idx, i + 1, r)
  ELSE fc_loop(pp, dd, w, idx, i + 1,
               fc_candidate(pp, dd, w, i, [r EXCEPT !.out = r.out + 1]))

fc_companion(dd, r) ==
  [ret |-> 1, d |-> [dd EXCEPT !.out = r.out], r_index |-> r.r_index, r_lam |-> r.r_lam]

\* dz1, dlam2 and dz3 are the three solves, w the column being removed
fc_decide(pp, dd, idx, r_idx, dz1, dlam2, dz3, w) ==
  IF Small(casadi_dot(pp.nz, dd.dlam, dd.dlam))
  THEN [ret |-> 0, d |-> [dd EXCEPT !.dz = dz1], r_index |-> r_idx, r_lam |-> Zero]
  ELSE IF Small(casadi_dot(pp.nz, dlam2, dlam2))
  THEN [ret |-> 0, d |-> [dd EXCEPT !.dz = dz1, !.dlam = dlam2],
        r_index |-> r_idx, r_lam |-> Zero]
  ELSE IF ~Small(dz3[idx])
  THEN [ret |-> 0, d |-> [dd EXCEPT !.dz = dz3, !.dlam = dlam2],
        r_index |-> r_idx, r_lam |-> Zero]
  ELSE fc_companion([dd EXCEPT !.dz = dz3, !.dlam = dlam2],
                    fc_loop(pp, [dd EXCEPT !.dz = dz3, !.dlam = dlam2], w, idx, 0,
                            [r_index |-> -1, r_lam |-> Zero, best_duerr |-> pp.inf,
                             out |-> dd.out]))

\* The result is [ret, d, r_index, r_lam]
casadi_qp_flip_check(pp, dd, idx, sgn, r_idx, e) ==
  fc_decide(pp, dd, idx, r_idx,
            casadi_qr_solve(dd.nz_kkt, pp.nz, casadi_qp_kkt_vector(pp, dd, idx), 0),
            casadi_qr_solve(dd.nz_kkt, pp.nz, casadi_qp_kkt_vector(pp, dd, idx), 1),
            casadi_qr_solve(dd.nz_kkt, pp.nz, casadi_qp_kkt_column(pp, dd, idx, sgn), 0),
            fc_normalize(pp.nz, casadi_qp_kkt_column(pp, dd, idx, IF sgn = 0 THEN 1 ELSE 0)))

\* The index and sign flip goes on with: [index, sign, msg]
\* Every proposal of a row is taken up
flip_regular_always(pp, dd, r_idx, r_sgn, e) == r_idx >= 0

\* Is the proposal made for regularity taken up?
flip_regular(pp, dd, r_idx, r_sgn, e) ==
  r_idx >= 0 /\ (r_sgn # 0 \/ Le(casadi_qp_du_check(pp, dd, r_idx), e))

flip_propose(pp, dd, idx, sgn, r_idx, r_sgn, e) ==
  LET a == IF flip_regular(pp, dd, r_idx, r_sgn, e)
           THEN [index |-> r_idx, sign |-> r_sgn, msg |-> "for regularity"]
           ELSE [index |-> idx, sign |-> sgn, msg |-> dd.msg]
  IN  IF a.index = -1 /\ Gt(dd.tau, Zero) /\ (dd.ipr >= 0 \/ dd.idu >= 0)
      THEN IF Ge(Mul(pp.du_to_pr, dd.pr), dd.du)
           THEN casadi_qp_pr_index(pp, [dd EXCEPT !.msg = a.msg], a.sign)
           ELSE casadi_qp_du_index(pp, [dd EXCEPT !.msg = a.msg], a.sign)
      ELSE a

flip_lam(pp, sgn) == IF sgn = 0 THEN Zero ELSE IF sgn > 0 THEN pp.dmin ELSE Neg(pp.dmin)

\* lam after the flip of a.index, and of the companion row that fc may have found
flip_set(pp, a, fc) ==
  LET d1 == IF fc.ret = 1 /\ fc.r_index >= 0
            THEN [fc.d EXCEPT !.lam[fc.r_index] = fc.r_lam, !.msg = "Flipped with companion"]
            ELSE fc.d
  IN  [d1 EXCEPT !.lam[a.index] = flip_lam(pp, a.sign)]

\* The flip is never given up
flip_abort_never(a, fc) == FALSE

\* Adding a.index would make the KKT singular and no companion row was found
flip_abort(a, fc) == fc.ret = 1 /\ fc.r_index < 0 /\ a.sign # 0

flip_commit(pp, a, fc) ==
  IF flip_abort(a, fc)
  THEN [d |-> [fc.d EXCEPT !.msg = "Cannot enforce"], index |-> -1, sign |-> a.sign]
  ELSE [d |-> casadi_qp_calc_dependent(pp, flip_set(pp, a, fc)), index |-> -2, sign |-> a.sign]

\* The singularity check is made only on a nonsingular KKT
flip_checked(pp, dd, a, r_idx, e) ==
  IF dd.sing = 0
  THEN casadi_qp_flip_check(pp, dd, a.index, a.sign, r_idx, e)
  ELSE [ret |-> 0, d |-> dd, r_index |-> r_idx, r_lam |-> Zero]

\* a is the proposal, [index, sign, msg]
flip_apply(pp, dd, a, r_idx, e) ==
  IF a.index < 0 THEN [d |-> [dd EXCEPT !.msg = a.msg], index |-> a.index, sign |-> a.sign]
  ELSE flip_commit(pp, a, flip_checked(pp, [dd EXCEPT !.msg = a.msg], a, r_idx, e))

flip_within(pp, dd, idx, sgn, r_idx, r_sgn, e) ==
  flip_apply(pp, dd, flip_propose(pp, dd, idx, sgn, r_idx, r_sgn, e), r_idx, e)

\* The result is [d, index, sign]
casadi_qp_flip(pp, dd, idx, sgn, r_idx, r_sgn) ==
  flip_within(pp, dd, idx, sgn, r_idx, r_sgn, fmax(Mul(pp.du_to_pr, dd.pr), dd.du))

(***************************************************************************)
(* casadi_qp_prob, casadi_qp_data                                          *)
(***************************************************************************)
\* The stored entries of a matrix with nrow rows and ncol columns
Pattern(m, nrow, ncol) == {rc \in Range(nrow) \X Range(ncol) : m[rc[1]][rc[2]] # Zero}

\* The pattern of the KKT matrix: those of H, A and A^T and the diagonal
KktPattern(sp_h, sp_a, nx, na) ==
  sp_h \cup {<<nx + rc[1], rc[2]>> : rc \in sp_a} \cup {<<rc[2], nx + rc[1]>> : rc \in sp_a}
       \cup {<<i, i>> : i \in Range(nx + na)}

\* casadi_qp_prob for the cost matrix h (nx x nx) and constraint matrix a (na x nx)
Prob(nx, na, h, a, dmin, du_to_pr) ==
  [nx |-> nx, na |-> na, nz |-> nx + na, dmin |-> dmin, inf |-> PInf,
   du_to_pr |-> du_to_pr, print_iter |-> 0,
   sp_h |-> Pattern(h, nx, nx), sp_a |-> Pattern(a, na, nx),
   sp_kkt |-> KktPattern(Pattern(h, nx, nx), Pattern(a, na, nx), nx, na)]

\* casadi_qp_data as casadi_qp_init leaves it, with the QP data attached;
\* out is the number of lines written to the standard output so far
Data(nx, na, h, a, g) ==
  [f |-> Zero, nz_h |-> h, nz_a |-> a, g |-> g,
   z |-> ConstVec(nx + na, Zero), lbz |-> ConstVec(nx + na, Zero),
   ubz |-> ConstVec(nx + na, Zero), lam |-> ConstVec(nx + na, Zero),
   dz |-> ConstVec(nx + na, Zero), dlam |-> ConstVec(nx + na, Zero),
   infeas |-> ConstVec(nx, Zero), tinfeas |-> ConstVec(nx, Zero),
   neverzero |-> ConstVec(nx + na, FALSE), neverupper |-> ConstVec(nx + na, FALSE),
   neverlower |-> ConstVec(nx + na, FALSE),
   nz_at |-> [r \in Range(nx) |-> [c \in Range(na) |-> Zero]],
   nz_kkt |-> [c \in Range(nx + na) |-> ConstVec(nx + na, Zero)],
   msg |-> "", tau |-> Zero, sing |-> 0,
   pr |-> Zero, du |-> Zero, ipr |-> -1, idu |-> -1, out |-> 0]

DMin == Frac(1, 100)

DuToPr == Q(1)

(***************************************************************************)
(* Bounds of the model                                                     *)
(***************************************************************************)
MaxB == 2

\* Finite values -n..n
Ints(n) == {Q(v) : v \in (-n)..n}

\* Multipliers: inactive, active at either bound, at and above dmin
LamVals == {Neg(One), Neg(DMin), Zero, DMin, One}

(***************************************************************************)
(* The caller's steps.  d0 is the data before the last step.               *)
(***************************************************************************)
Locals == <<index, sign, r_index, r_sign>>

InitLocals == index = -1 /\ sign = 0 /\ r_index = -1 /\ r_sign = 0 /\ ret = 0 /\ iter = 0

Reset ==
  /\ pc = "reset"
  /\ LET r == casadi_qp_reset(p, d)
     IN  /\ d' = r.d
         /\ ret' = r.ret
         /\ pc' = IF r.ret = 0 THEN "dependent" ELSE "bounds_infeasible"
  /\ d0' = d
  /\ UNCHANGED <<p, index, sign, r_index, r_sign, iter>>

(***************************************************************************)
(* qp_reset on any initial guess and any bounds                            *)
(***************************************************************************)
ResetBounds == Ints(MaxB) \cup {NInf, PInf}

InitReset ==
  /\ InitLocals
  /\ pc = "reset"
  /\ LET h == [r \in Range(1) |-> [c \in Range(1) |-> One]]
         a == [r \in Range(1) |-> [c \in Range(1) |-> One]]
     IN  /\ p = Prob(1, 1, h, a, DMin, DuToPr)
         /\ \E z \in [Range(2) -> {Zero, One}], lam \in [Range(2) -> {Neg(One), Zero, One}],
               lb \in [Range(2) -> ResetBounds], ub \in [Range(2) -> ResetBounds] :
              d = [Data(1, 1, h, a, ConstVec(1, Zero)) EXCEPT
                     !.z = z, !.lam = lam, !.lbz = lb, !.ubz = ub]
  /\ d0 = d

NextReset == Reset

SpecReset == InitReset /\ [][NextReset]_vars

\* Row i is an equality row with both bounds infinite
AllThree(dd, i) == Eq(dd.lbz[i], dd.ubz[i]) /\ isinf(dd.ubz[i]) /\ isinf(dd.lbz[i])

AfterReset == pc \in {"dependent", "bounds_infeasible"}

\* C2: qp_reset returns 1 if and only if some row is at once neverzero, neverupper
\* and neverlower, and 0 otherwise; on failure it stops at the first such row: the
\* rows after it are left as they were and A is not transposed.
ResetFailsIffAllThree ==
  AfterReset =>
    /\ ret \in {0, 1}
    /\ (ret = 1) <=> (\E i \in Range(p.nz) : AllThree(d0, i))
    /\ ret = 1 =>
         LET k == CHOOSE i \in Range(p.nz) :
                    AllThree(d0, i) /\ \A j \in Range(i) : ~AllThree(d0, j)
         IN  /\ \A j \in Range(p.nz) : j > k =>
                   /\ d.lam[j] = d0.lam[j]
                   /\ d.neverzero[j] = d0.neverzero[j]
                   /\ d.neverupper[j] = d0.neverupper[j]
                   /\ d.neverlower[j] = d0.neverlower[j]
             /\ d.lam[k] = d0.lam[k]
             /\ d.nz_at = d0.nz_at
    /\ ret = 0 => d.nz_at = casadi_trans(d.nz_a, p.na, p.nx)

\* Reset failed at row 0 although row 1 had a multiplier that a completed reset corrects
ResetFailsWitness ==
  /\ pc = "bounds_infeasible"
  /\ AllThree(d0, 0)
  /\ isinf(d0.ubz[1]) /\ ~isinf(d0.lbz[1]) /\ Gt(d0.lam[1], Zero)

\* C3: qp_reset reports bounds_infeasible whenever some row has contradictory
\* finite bounds lbz[i] > ubz[i].
ResetRejectsCrossedBounds ==
  AfterReset =>
    ((\E i \in Range(p.nz) :
        IsFinite(d0.lbz[i]) /\ IsFinite(d0.ubz[i]) /\ Gt(d0.lbz[i], d0.ubz[i]))
     => ret = 1)

\* Permitted signs of the multiplier of row i for the bounds of dd
SignOk(dd, i, l) ==
  /\ Eq(dd.lbz[i], dd.ubz[i]) => l # Zero
  /\ isinf(dd.ubz[i]) => Le(l, Zero)
  /\ isinf(dd.lbz[i]) => Ge(l, Zero)

\* C4: after qp_reset returns ok every row satisfies sign discipline: an equality row
\* whose multiplier was 0 gets -dmin or +dmin, a one-sided row whose multiplier had
\* the forbidden sign gets 0, a multiplier of a permitted sign is unchanged, and
\* z, lbz and ubz are not modified.
ResetCorrectsLam ==
  pc = "dependent" =>
    /\ \A i \in Range(p.nz) :
         /\ SignOk(d, i, d.lam[i])
         /\ d.neverzero[i] = Eq(d.lbz[i], d.ubz[i])
         /\ d.neverupper[i] = isinf(d.ubz[i])
         /\ d.neverlower[i] = isinf(d.lbz[i])
         /\ SignOk(d0, i, d0.lam[i]) => d.lam[i] = d0.lam[i]
         /\ ~SignOk(d0, i, d0.lam[i]) =>
              IF d.neverzero[i] THEN d.lam[i] \in {p.dmin, Neg(p.dmin)} ELSE d.lam[i] = Zero
    /\ d.z = d0.z /\ d.lbz = d0.lbz /\ d.ubz = d0.ubz

\* Reset succeeded and corrected both an equality row and a one-sided row
ResetCorrectsWitness ==
  /\ pc = "dependent"
  /\ d.neverzero[0] /\ d0.lam[0] = Zero /\ d.lam[0] # Zero
  /\ d.neverupper[1] /\ Gt(d0.lam[1], Zero) /\ d.lam[1] = Zero

(***************************************************************************)
(* qp_pr on any z and any bounds                                           *)
(***************************************************************************)
KPr ==
  /\ pc = "pr0"
  /\ d' = casadi_qp_pr(p, d)
  /\ pc' = "pr1"
  /\ d0' = d
  /\ UNCHANGED <<p, index, sign, r_index, r_sign, ret, iter>>

InitPr ==
  /\ InitLocals
  /\ pc = "pr0"
  /\ LET h == [r \in Range(1) |-> [c \in Range(1) |-> One]]
         a == [r \in Range(1) |-> [c \in Range(1) |-> One]]
     IN  /\ p = Prob(1, 1, h, a, DMin, DuToPr)
         /\ \E z \in [Range(2) -> Ints(1)],
               lb \in [Range(2) -> Ints(MaxB) \cup {NInf}],
               ub \in [Range(2) -> Ints(MaxB) \cup {PInf}] :
              d = [Data(1, 1, h, a, ConstVec(1, Zero)) EXCEPT !.z = z, !.lbz = lb, !.ubz = ub]
  /\ d0 = d

NextPr == KPr

SpecPr == InitPr /\ [][NextPr]_vars

\* Violation of the bounds of row i by z
Viol(dd, i) == fmax(fmax(Sub(dd.z[i], dd.ubz[i]), Sub(dd.lbz[i], dd.z[i])), Zero)

\* C6: for every z, lbz, ubz (rows with lbz > ubz included) qp_pr sets
\* pr = max_i max(z[i]-ubz[i], lbz[i]-z[i], 0), ipr is the smallest index attaining
\* that maximum, and ipr = -1 exactly when pr = 0.
PrIsMaxViolation ==
  pc = "pr1" =>
    /\ \A i \in Range(p.nz) : Le(Viol(d, i), d.pr)
    /\ (d.ipr = -1) <=> (d.pr = Zero)
    /\ d.ipr # -1 =>
         /\ d.ipr \in Range(p.nz)
         /\ Viol(d, d.ipr) = d.pr
         /\ \A j \in Range(d.ipr) : Viol(d, j) # d.pr

\* The same statement for bounds that are not crossed (lbz <= ubz in every row)
PrIsMaxViolationOrdered ==
  (\A i \in Range(p.nz) : Le(d.lbz[i], d.ubz[i])) => PrIsMaxViolation

(***************************************************************************)
(* calc_dependent, twice in a row, on any point and multipliers            *)
(***************************************************************************)
KDependent ==
  /\ pc \in {"dep0", "dep1"}
  /\ d' = casadi_qp_calc_dependent(p, d)
  /\ pc' = IF pc = "dep0" THEN "dep1" ELSE "dep2"
  /\ d0' = d
  /\ UNCHANGED <<p, index, sign, r_index, r_sign, ret, iter>>

\* Cost matrices: definite, singular, indefinite diagonal
DepH ==
  { [r \in Range(2) |-> [c \in Range(2) |-> IF r = c THEN One ELSE Zero]],
    [r \in Range(2) |-> [c \in Range(2) |-> One]],
    [r \in Range(2) |-> [c \in Range(2) |-> IF r = c /\ r = 0 THEN Q(2) ELSE Zero]] }

\* Constraint matrices with one row
DepA ==
  { [r \in Range(1) |-> [c \in Range(2) |-> One]],
    [r \in Range(1) |-> [c \in Range(2) |-> IF c = 0 THEN One ELSE Zero]],
    [r \in Range(1) |-> [c \in Range(2) |-> IF c = 0 THEN One ELSE Neg(One)]] }

InitDep ==
  /\ InitLocals
  /\ pc = "dep0"
  /\ \E h \in DepH, a \in DepA, g \in [Range(2) -> Ints(MaxB)],
        x \in [Range(2) -> {Zero, One}], lam \in [Range(3) -> {Neg(One), Zero, One}] :
       /\ p = Prob(2, 1, h, a, DMin, DuToPr)
       /\ d = [Data(2, 1, h, a, g) EXCEPT
                 !.z = [i \in Range(3) |-> IF i < 2 THEN x[i] ELSE Zero],
                 !.lam = lam,
                 !.ubz = ConstVec(3, One)]
  /\ d0 = d

NextDep == KDependent

SpecDep == InitDep /\ [][NextDep]_vars

\* C7: calc_dependent is idempotent: a second call in a row leaves f, z, lam,
\* infeas, pr, ipr, du and idu as the first call left them.
CalcDependentIdempotent ==
  pc = "dep2" =>
    /\ d.f = d0.f /\ d.z = d0.z /\ d.lam = d0.lam /\ d.infeas = d0.infeas
    /\ d.pr = d0.pr /\ d.ipr = d0.ipr /\ d.du = d0.du /\ d.idu = d0.idu

\* The second call has run on a point whose first call moved z[nx:] and clamped lam
IdempotentWitness ==
  /\ pc = "dep2"
  /\ d.z[2] # Zero
  /\ d.lam[0] = p.dmin
  /\ d.du # Zero /\ d.pr # Zero

\* C8: calc_dependent never changes the sign of a multiplier: for i < nx a positive
\* lam[i] ends >= dmin, a negative one ends <= -dmin, a zero one stays 0; lam[i]
\* for i >= nx is not modified.
CalcDependentKeepsSigns ==
  pc \in {"dep1", "dep2"} =>
    \A i \in Range(p.nz) :
      IF i < p.nx
      THEN /\ Gt(d0.lam[i], Zero) => Ge(d.lam[i], p.dmin)
           /\ Lt(d0.lam[i], Zero) => Le(d.lam[i], Neg(p.dmin))
           /\ d0.lam[i] = Zero => d.lam[i] = Zero
      ELSE d.lam[i] = d0.lam[i]

\* A positive multiplier whose recomputed value -infeas is below dmin was clamped,
\* and a negative one was moved to -infeas
KeepsSignsWitness ==
  /\ pc = "dep1"
  /\ Gt(d0.lam[0], Zero) /\ d.lam[0] = p.dmin /\ Gt(d.infeas[0], p.dmin)
  /\ Lt(d0.lam[1], Zero) /\ Lt(d.lam[1], Neg(One))

\* Gradient of the Lagrangian g + H*x + A^T*lam[nx:] + lam[:nx] at row i of dd
Stationarity(pp, dd, i) ==
  Add(Add(Add(dd.g[i], MvRow(dd.nz_h, pp.sp_h, pp.nx, dd.z, i)),
          MvCol(dd.nz_a, pp.sp_a, pp.na, [r \in Range(pp.na) |-> dd.lam[pp.nx + r]], i)),
      dd.lam[i])

\* C9: after calc_dependent z[nx:] = A*z[:nx], infeas is the gradient of the
\* Lagrangian g + H*x + A^T*lam[nx:] + lam[:nx] at the multipliers after the call,
\* du = max_i |infeas[i]| with idu the smallest index attaining it (idu = -1 iff
\* du = 0); hence every component of the gradient is within du.
CalcDependentStationarity ==
  pc \in {"dep1", "dep2"} =>
    /\ \A r \in Range(p.na) : d.z[p.nx + r] = MvRow(d.nz_a, p.sp_a, p.nx, d.z, r)
    /\ \A i \in Range(p.nx) :
         /\ d.infeas[i] = Stationarity(p, d, i)
         /\ Le(fabs(Stationarity(p, d, i)), d.du)
    /\ (d.idu = -1) <=> (d.du = Zero)
    /\ d.idu # -1 =>
         /\ d.idu \in Range(p.nx)
         /\ fabs(d.infeas[d.idu]) = d.du
         /\ \A j \in Range(d.idu) : fabs(d.infeas[j]) # d.du

\* Both rows attain the dual error, and the first one is reported
StationarityWitness ==
  /\ pc = "dep1"
  /\ d.du # Zero /\ d.idu = 0
  /\ fabs(d.infeas[1]) = d.du
  /\ d.lam[2] # Zero /\ d.z[2] # Zero

(***************************************************************************)
(* The solve loop: update dependents, check convergence, factorize,        *)
(* compute the direction, line search, flip, and again.                    *)
(***************************************************************************)
MaxIter == 4

\* Convergence tolerance on pr and du
Tol == Zero

Dependent ==
  /\ pc = "dependent"
  /\ d' = casadi_qp_calc_dependent(p, d)
  /\ pc' = "check"
  /\ d0' = d
  /\ UNCHANGED <<p, index, sign, r_index, r_sign, ret, iter>>

Check ==
  /\ pc = "check"
  /\ pc' = IF Le(d.pr, Tol) /\ Le(d.du, Tol) THEN "solved"
           ELSE IF iter >= MaxIter THEN "max_iter"
           ELSE "factorize"
  /\ iter' = IF pc' = "factorize" THEN iter + 1 ELSE iter
  /\ d0' = d
  /\ UNCHANGED <<p, d, index, sign, r_index, r_sign, ret>>

Factorize ==
  /\ pc = "factorize"
  /\ d' = casadi_qp_factorize(p, d)
  /\ pc' = "calc_step"
  /\ d0' = d
  /\ UNCHANGED <<p, index, sign, r_index, r_sign, ret, iter>>

CalcStep ==
  /\ pc = "calc_step"
  /\ casadi_qr_nullity(d.nz_kkt, p.nz, 0) <= 1
  /\ LET r == casadi_qp_calc_step(p, d)
     IN  /\ d' = r.d
         /\ ret' = r.ret
         /\ r_index' = r.r_index
         /\ r_sign' = r.r_sign
         /\ pc' = IF r.ret = 0 THEN "linesearch" ELSE "singular_unrecoverable"
  /\ d0' = d
  /\ UNCHANGED <<p, index, sign, iter>>

Linesearch ==
  /\ pc = "linesearch"
  /\ LET r == casadi_qp_linesearch(p, d)
     IN  /\ d' = r.d
         /\ index' = r.index
         /\ sign' = r.sign
  /\ pc' = "flip"
  /\ d0' = d
  /\ UNCHANGED <<p, r_index, r_sign, ret, iter>>

Flip ==
  /\ pc = "flip"
  /\ LET r == casadi_qp_flip(p, d, index, sign, r_index, r_sign)
     IN  /\ d' = r.d
         /\ index' = r.index
         /\ sign' = r.sign
  /\ pc' = "dependent"
  /\ d0' = d
  /\ UNCHANGED <<p, r_index, r_sign, ret, iter>>

\* Lower and upper bounds of a row
LowerBounds == {NInf, Zero, One}

UpperBounds == {Zero, One, PInf}

Init ==
  /\ InitLocals
  /\ pc = "reset"
  /\ \E hv \in {Zero, One}, av \in {One, Neg(One)}, g \in Ints(MaxB),
        lb \in [Range(2) -> LowerBounds], ub \in [Range(2) -> UpperBounds] :
       LET h == [r \in Range(1) |-> [c \in Range(1) |-> hv]]
           a == [r \in Range(1) |-> [c \in Range(1) |-> av]]
       IN  /\ p = Prob(1, 1, h, a, DMin, DuToPr)
           /\ d = [Data(1, 1, h, a, ConstVec(1, g)) EXCEPT !.lbz = lb, !.ubz = ub]
  /\ d0 = d

Next == Reset \/ Dependent \/ Check \/ Factorize \/ CalcStep \/ Linesearch \/ Flip

Spec == Init /\ [][Next]_vars

Discipline(dd, i) ==
  /\ dd.neverzero[i] => ~Eq(dd.lam[i], Zero)
  /\ dd.neverupper[i] => Le(dd.lam[i], Zero)
  /\ dd.neverlower[i] => Ge(dd.lam[i], Zero)

AfterOkReset == pc \notin {"reset", "bounds_infeasible"}

\* C1: after a successful reset every row keeps sign discipline at every step of the loop
SignDiscipline == AfterOkReset => \A i \in Range(p.nz) : Discipline(d, i)

\* lam[i] + tau*dlam[i], the multiplier take_step starts from
SteppedLam(i) == Add(d0.lam[i], Mul(d.tau, d0.dlam[i]))

StepKeepsSignature(i) ==
  IF d.neverzero[i]
  THEN /\ ~Eq(d.lam[i], Zero)
       /\ SignOf(d.lam[i]) # SignOf(d0.lam[i]) =>
            (SignOf(SteppedLam(i)) # 0 /\ SignOf(SteppedLam(i)) = -SignOf(d0.lam[i]))
  ELSE SignOf(d.lam[i]) = SignOf(d0.lam[i])

\* C5: the take_step of the line search keeps the sign of lam on every row that is not
\* neverzero; on a neverzero row the sign flips only when lam + tau*dlam has strictly
\* crossed zero, and lam is not 0 afterwards
TakeStepKeepsSignature == pc = "flip" => \A i \in Range(p.nz) : StepKeepsSignature(i)

\* The same, for steps taken from a state in which every row has sign discipline
TakeStepKeepsDisciplinedSignature ==
  (pc = "flip" /\ \A i \in Range(p.nz) : Discipline(d0, i)) =>
    \A i \in Range(p.nz) : StepKeepsSignature(i)

(***************************************************************************)
(* One line search from any dependent-consistent state along any direction *)
(* with dz[nx:] = A*dz[:nx]                                                *)
(***************************************************************************)
StepVals == Ints(1)

InitLinesearch ==
  /\ InitLocals
  /\ pc = "linesearch"
  /\ LET h == [r \in Range(1) |-> [c \in Range(1) |-> One]]
         a == [r \in Range(1) |-> [c \in Range(1) |-> One]]
     IN  /\ p = Prob(1, 1, h, a, DMin, DuToPr)
         /\ \E g \in {One}, x \in {Zero, One},
               lam \in [Range(2) -> {Neg(One), Zero, One}],
               lb \in [Range(2) -> {NInf, Zero}], ub \in [Range(2) -> {Zero, PInf}] :
              LET r == casadi_qp_reset(p, [Data(1, 1, h, a, ConstVec(1, g)) EXCEPT
                                             !.z = ConstVec(2, x), !.lam = lam,
                                             !.lbz = lb, !.ubz = ub])
                  dep == casadi_qp_calc_dependent(p, r.d)
              IN  \E dx \in [Range(1) -> StepVals], dlam \in [Range(2) -> StepVals],
                     tinfeas \in [Range(1) -> StepVals] :
                    d = [dep EXCEPT
                           !.dz = [i \in Range(2) |->
                                     IF i < 1 THEN dx[i] ELSE MvRow(a, p.sp_a, 1, dx, i - 1)],
                           !.dlam = dlam, !.tinfeas = tinfeas]
  /\ d0 = d

NextLinesearch == Linesearch

SpecLinesearch == InitLinesearch /\ [][NextLinesearch]_vars

\* C10: after every line search 0 <= tau <= 1
TauInUnitInterval == pc = "flip" => (Ge(d.tau, Zero) /\ Le(d.tau, One))

\* A line search that was blocked strictly inside the unit interval
TauInUnitIntervalWitness == pc = "flip" /\ Gt(d.tau, Zero) /\ Lt(d.tau, One)

\* The primal budget of the line search, from pr and du before it
PrimalBudget == fmax(d0.pr, Div(d0.du, p.du_to_pr))

\* C11: after the line search z = z0 + tau*dz lies within every bound relaxed by
\* e = max(pr, du/du_to_pr)
PrimalEnvelope ==
  pc = "flip" =>
    \A i \in Range(p.nz) :
      /\ Ge(d.z[i], Sub(d.lbz[i], PrimalBudget))
      /\ Le(d.z[i], Add(d.ubz[i], PrimalBudget))

\* The direction entering the line search is finite in every row
FiniteStep == \A i \in Range(p.nz) : IsFinite(d0.dz[i]) /\ IsFinite(d0.z[i])

\* No row has its lower bound above its upper bound
BoundsOrdered == \A i \in Range(p.nz) : Le(d.lbz[i], d.ubz[i])

\* With ordered bounds and a finite direction the line search keeps z within
\* the relaxed bounds
PrimalEnvelopeOrdered == (FiniteStep /\ BoundsOrdered) => PrimalEnvelope

\* The dual budget of the line search, from pr and du before it
DualBudget == fmax(Mul(d0.pr, p.du_to_pr), d0.du)

(***************************************************************************)
(* qp_dual_blocking on any finite direction, two variables and one         *)
(* constraint, with pr and du as calc_dependent leaves them                *)
(***************************************************************************)
DualBlocking ==
  /\ pc = "dual_blocking"
  /\ LET r == casadi_qp_dual_blocking(p, d, fmax(Mul(d.pr, p.du_to_pr), d.du))
     IN  /\ d' = r.d
         /\ ret' = r.du_index
  /\ pc' = "dual_blocked"
  /\ d0' = d
  /\ UNCHANGED <<p, index, sign, r_index, r_sign, iter>>

\* Multiplier steps of the rows that carry a breakpoint
DualSteps == {Q(-2), Zero, Q(2), Q(4)}

\* Tangents of the dual infeasibility
DualTangents == {Q(-2), Zero, Q(2)}

InitDual ==
  /\ InitLocals
  /\ pc = "dual_blocking"
  /\ LET h == [r \in Range(2) |-> [c \in Range(2) |-> IF r = c THEN One ELSE Zero]]
         a == [r \in Range(1) |-> [c \in Range(2) |-> One]]
     IN  /\ p = Prob(2, 1, h, a, DMin, DuToPr)
         /\ \E lam0 \in {Neg(One), Zero, One}, lam2 \in {Neg(One), Zero, One},
               dlam0 \in DualSteps, dlam2 \in DualSteps,
               infeas \in [Range(2) -> Ints(1)], tinfeas \in [Range(2) -> DualTangents],
               nvz \in BOOLEAN, pr \in {Zero, Q(2)}, tau \in {Frac(1, 2), One} :
              d = [Data(2, 1, h, a, ConstVec(2, Zero)) EXCEPT
                     !.lam = [i \in Range(3) |-> IF i = 0 THEN lam0 ELSE IF i = 2 THEN lam2 ELSE Zero],
                     !.dlam = [i \in Range(3) |-> IF i = 0 THEN dlam0 ELSE IF i = 2 THEN dlam2 ELSE Zero],
                     !.infeas = infeas, !.tinfeas = tinfeas,
                     !.neverzero = [i \in Range(3) |-> i = 2 /\ nvz],
                     !.nz_at = casadi_trans(a, 1, 2),
                     !.pr = pr, !.du = fmax(fabs(infeas[0]), fabs(infeas[1])),
                     !.tau = tau]
  /\ d0 = d

NextDual == DualBlocking

SpecDual == InitDual /\ [][NextDual]_vars

\* Rows whose multiplier changes sign strictly inside the step [0, dd.tau]
BreakRows(dd) ==
  {i \in Range(p.nz) :
     /\ ~Eq(dd.lam[i], Zero)
     /\ ~Eq(dd.dlam[i], Zero)
     /\ IF Gt(dd.lam[i], Zero)
        THEN Lt(Add(dd.lam[i], Mul(dd.tau, dd.dlam[i])), Zero)
        ELSE Gt(Add(dd.lam[i], Mul(dd.tau, dd.dlam[i])), Zero)}

\* The step at which the multiplier of row i becomes zero
BreakAt(dd, i) == Div(Neg(dd.lam[i]), dd.dlam[i])

\* What the multiplier step of row i adds to the tangent of infeas[k]
TangentShare(dd, i, k) ==
  IF i < p.nx THEN (IF i = k THEN dd.dlam[i] ELSE Zero)
  ELSE IF <<i - p.nx, k>> \in p.sp_a THEN Mul(dd.nz_a[i - p.nx][k], dd.dlam[i])
  ELSE Zero

\* infeas[k] after a step t: linear, and without the share of every row whose
\* multiplier has become zero and stays zero
InfeasAlong(dd, k, t) ==
  Sub(Add(dd.infeas[k], Mul(t, dd.tinfeas[k])),
      SumVec([i \in Range(p.nz) |->
                IF i \in BreakRows(dd) /\ ~dd.neverzero[i] /\ Lt(BreakAt(dd, i), t)
                THEN Mul(Sub(t, BreakAt(dd, i)), TangentShare(dd, i, k))
                ELSE Zero], p.nz))

\* Ends of the intervals on which infeas is linear
Checkpoints(dd) == {BreakAt(dd, i) : i \in BreakRows(dd)} \cup {dd.tau}

\* The first checkpoint after the step t
NextCheckpoint(dd, t) ==
  CHOOSE c \in Checkpoints(dd) :
    Gt(c, t) /\ \A u \in Checkpoints(dd) : Gt(u, t) => Le(c, u)

\* C12: if every |infeas[k]| <= e on entry, then after dual_blocking every
\* |infeas[k]| <= e; when it returns k >= 0, |infeas[k]| = e and tau is the first
\* step at which the piecewise linear infeas leaves the budget e
DualEnvelope ==
  (pc = "dual_blocked" /\ \A k \in Range(p.nx) : Le(fabs(d0.infeas[k]), DualBudget)) =>
    /\ \A k \in Range(p.nx) :
         /\ Le(fabs(d.infeas[k]), DualBudget)
         /\ Eq(d.infeas[k], InfeasAlong(d0, k, d.tau))
    /\ \A c \in Checkpoints(d0) :
         Le(c, d.tau) => \A k \in Range(p.nx) : Le(fabs(InfeasAlong(d0, k, c)), DualBudget)
    /\ ret < 0 => Eq(d.tau, d0.tau)
    /\ ret >= 0 =>
         /\ Eq(fabs(d.infeas[ret]), DualBudget)
         /\ Lt(d.tau, d0.tau)
         /\ Gt(fabs(InfeasAlong(d0, ret, NextCheckpoint(d0, d.tau))), DualBudget)

\* A dual blocking constraint found after a multiplier has become zero
DualEnvelopeWitness ==
  /\ pc = "dual_blocked"
  /\ ret >= 0
  /\ \E i \in BreakRows(d0) : ~d0.neverzero[i] /\ Lt(BreakAt(d0, i), d.tau)

(***************************************************************************)
(* The solve loop from a warm start: any initial x and any initial          *)
(* multipliers, ordered bounds                                             *)
(***************************************************************************)
InitWarm ==
  /\ InitLocals
  /\ pc = "reset"
  /\ \E g \in Ints(1), x \in {Zero, One}, lam \in [Range(2) -> {Neg(One), Zero, One}],
        lb \in [Range(2) -> {NInf, Zero}], ub \in [Range(2) -> {One, PInf}] :
       LET h == [r \in Range(1) |-> [c \in Range(1) |-> One]]
           a == [r \in Range(1) |-> [c \in Range(1) |-> One]]
       IN  /\ p = Prob(1, 1, h, a, DMin, DuToPr)
           /\ d = [Data(1, 1, h, a, ConstVec(1, g)) EXCEPT
                     !.z = ConstVec(2, x), !.lam = lam, !.lbz = lb, !.ubz = ub]
  /\ d0 = d

SpecWarm == InitWarm /\ [][Next]_vars

\* Row i of dd is complementary: an active multiplier has z on its bound, an
\* inactive one has z within the bounds
Complementary(dd, i) ==
  /\ Gt(dd.lam[i], Zero) => Eq(dd.z[i], dd.ubz[i])
  /\ Lt(dd.lam[i], Zero) => Eq(dd.z[i], dd.lbz[i])
  /\ Eq(dd.lam[i], Zero) => (Le(dd.lbz[i], dd.z[i]) /\ Le(dd.z[i], dd.ubz[i]))

\* C13: when the solver declares 'solved' every row is complementary
ComplementarityAtSolved == pc = "solved" => \A i \in Range(p.nz) : Complementary(d, i)

(***************************************************************************)
(* The solve loop followed by a second reset and solve of a solved          *)
(* instance                                                                *)
(***************************************************************************)
ResetAgain ==
  /\ pc = "solved"
  /\ LET r == casadi_qp_reset(p, d)
     IN  /\ d' = r.d
         /\ ret' = r.ret
         /\ pc' = IF r.ret = 0 THEN "dependent_again" ELSE "bounds_infeasible"
  /\ d0' = d
  /\ UNCHANGED <<p, index, sign, r_index, r_sign, iter>>

DependentAgain ==
  /\ pc = "dependent_again"
  /\ d' = casadi_qp_calc_dependent(p, d)
  /\ pc' = "check_again"
  /\ d0' = d
  /\ UNCHANGED <<p, index, sign, r_index, r_sign, ret, iter>>

CheckAgain ==
  /\ pc = "check_again"
  /\ pc' = IF Le(d.pr, Tol) /\ Le(d.du, Tol) THEN "solved_again" ELSE "unsolved_again"
  /\ d0' = d
  /\ UNCHANGED <<p, d, index, sign, r_index, r_sign, ret, iter>>

NextAgain == Next \/ ResetAgain \/ DependentAgain \/ CheckAgain

SpecAgain == Init /\ [][NextAgain]_vars

\* The last step left z and lam as they were
SameIterate == d.z = d0.z /\ d.lam = d0.lam

\* C14 (second solve): reset and calc_dependent of a solved instance leave (z, lam)
\* unchanged and the first convergence check exits
SolveAgainIdempotent ==
  /\ pc \in {"dependent_again", "check_again"} => SameIterate
  /\ pc # "unsolved_again"

\* A solved instance in which every row has sign discipline is left as it is by
\* a second reset and calc_dependent, and is still solved
SolveAgainIdempotentDisciplined ==
  (pc = "solved" /\ \A i \in Range(p.nz) : Discipline(d, i)) =>
    LET r == casadi_qp_reset(p, d)
        again == casadi_qp_calc_dependent(p, r.d)
    IN  /\ r.ret = 0
        /\ again.z = d.z /\ again.lam = d.lam
        /\ Le(again.pr, Tol) /\ Le(again.du, Tol)

(***************************************************************************)
(* qp_flip on any pending index and any proposal, from every dependent-     *)
(* consistent factorized state of the 1x1 problem                          *)
(***************************************************************************)
\* An index with its sign, or none
Proposals == {<<-1, 0>>} \cup (Range(2) \X {-1, 0, 1})

\* The index and sign a line search can leave
Pendings == {<<-1, 0>>} \cup (Range(2) \X {-1, 1})

InitFlip ==
  /\ ret = 0 /\ iter = 0
  /\ pc = "flip"
  /\ LET h == [r \in Range(1) |-> [c \in Range(1) |-> One]]
         a == [r \in Range(1) |-> [c \in Range(1) |-> One]]
     IN  /\ p = Prob(1, 1, h, a, DMin, DuToPr)
         /\ \E x \in Ints(1), lam \in [Range(2) -> {Neg(One), Zero, One}],
               lb \in [Range(2) -> {NInf, Zero}], ub \in [Range(2) -> {Zero, PInf}],
               tau \in {Zero, One} :
              LET r == casadi_qp_reset(p, [Data(1, 1, h, a, ConstVec(1, One)) EXCEPT
                                             !.z = ConstVec(2, x), !.lam = lam,
                                             !.lbz = lb, !.ubz = ub])
                  f == casadi_qp_factorize(p, casadi_qp_calc_dependent(p, r.d))
              IN  d = [f EXCEPT !.tau = tau]
  /\ \E pending \in Pendings, proposal \in Proposals :
       /\ index = pending[1] /\ sign = pending[2]
       /\ r_index = proposal[1] /\ r_sign = proposal[2]
  /\ d0 = d

NextFlip == Flip

SpecFlip == InitFlip /\ [][NextFlip]_vars

\* The acceptable dual error of flip, from pr and du before it
FlipBudget == fmax(Mul(p.du_to_pr, d0.pr), d0.du)

\* The last flip took up the proposal made for regularity
RegularityAdopted == pc = "dependent" /\ r_index >= 0 /\ d.msg = "for regularity"

\* C19: the proposal (r_index, r_sign) is taken up by flip only if
\* du_check(r_index) <= e, whatever r_sign
RecoveryWithinBudget ==
  RegularityAdopted => Le(casadi_qp_du_check(p, d0, r_index), FlipBudget)

\* C19 as the code has it: the proposal is taken up only if it enforces a bound
\* (r_sign # 0) or du_check(r_index) <= e
RecoveryEnforcedOrWithinBudget ==
  RegularityAdopted =>
    (r_sign # 0 \/ Le(casadi_qp_du_check(p, d0, r_index), FlipBudget))

\* A proposal that enforces a bound was taken up although its du_check exceeds e
RecoveryBeyondBudget ==
  RegularityAdopted /\ r_sign # 0 /\ Gt(casadi_qp_du_check(p, d0, r_index), FlipBudget)

\* C14 (flip): with no pending index, no proposal and no residual infeasibility a
\* flip changes neither lam nor z and leaves index = -1
FlipWithoutProposal ==
  [][(pc = "flip" /\ index = -1 /\ r_index = -1 /\ d.ipr = -1 /\ d.idu = -1) =>
       (d'.lam = d.lam /\ d'.z = d.z /\ index' = -1)]_vars

\* No index is pending when flip looks for a feasibility-improving one
NoIndexPending ==
  index = -1 /\ ~flip_regular(p, d, r_index, r_sign, fmax(Mul(p.du_to_pr, d.pr), d.du))

\* The step was not (almost) zero and some residual infeasibility remains
FlipGate == Gt(d.tau, Zero) /\ (d.ipr >= 0 \/ d.idu >= 0)

PrimalDominates == Ge(Mul(p.du_to_pr, d.pr), d.du)

\* The sign with which pr_index proposes row i
PrSign(i) == IF Lt(d.z[i], d.lbz[i]) THEN -1 ELSE 1

\* C20: flip proposes a feasibility-improving index only when none is pending,
\* tau > 0 and ipr >= 0 or idu >= 0; from pr_index when du_to_pr*pr >= du and from
\* du_index otherwise; pr_index is reached with ipr >= 0 only and what it proposes
\* is ipr with sign -1 if z[ipr] < lbz[ipr] and +1 otherwise
FeasibilityProposal ==
  [][pc = "flip" =>
       /\ (d'.msg = "Added to reduce |pr|" /\ d.msg # "Added to reduce |pr|") =>
            (NoIndexPending /\ FlipGate /\ PrimalDominates)
       /\ (d'.msg = "Removed to reduce |du|" /\ d.msg # "Removed to reduce |du|") =>
            (NoIndexPending /\ FlipGate /\ ~PrimalDominates)
       /\ (NoIndexPending /\ ~FlipGate) => (d' = d /\ index' = -1 /\ sign' = sign)
       /\ (NoIndexPending /\ FlipGate /\ PrimalDominates) =>
            /\ d.ipr >= 0
            /\ IF Eq(d.lam[d.ipr], Zero)
               THEN /\ sign' = PrSign(d.ipr)
                    /\ \/ index' = -2 /\ SignOf(d'.lam[d.ipr]) = sign'
                       \/ index' = -1 /\ d'.msg = "Cannot enforce"
               ELSE d' = d /\ index' = -1 /\ sign' = sign]_vars

\* pr_index has proposed a row below its lower bound and the flip was made
FeasibilityProposalWitness ==
  /\ pc = "dependent"
  /\ d.msg = "Added to reduce |pr|"
  /\ index = -2 /\ sign = -1
  /\ d0.ipr >= 0 /\ Lt(d0.z[d0.ipr], d0.lbz[d0.ipr])

\* C15: with print_iter = 0 no operation writes a line to the output; the message
\* buffer is the only diagnostic
OutputGatedByPrintIter == p.print_iter = 0 => d.out = 0

\* Row i of dd is past a bound by e with the direction pushing it further
ZeroBlocks(dd, e, i) ==
  \/ Lt(dd.dz[i], Zero) /\ Le(dd.z[i], Sub(dd.lbz[i], e))
  \/ Gt(dd.dz[i], Zero) /\ Ge(dd.z[i], Add(dd.ubz[i], e))

\* How far row i of dd is past the bound the direction pushes it over
PastBound(dd, i) ==
  IF Lt(dd.dz[i], Zero) THEN Sub(dd.lbz[i], dd.z[i]) ELSE Sub(dd.z[i], dd.ubz[i])

\* The last line search was pinned to tau = 0 by a row past its bound
ZeroBlocked ==
  /\ pc = "flip"
  /\ \E i \in Range(p.nz) : ZeroBlocks(d0, PrimalBudget, i)

\* In the loop of one variable and one constraint every row that zero-blocks is
\* past its bound by exactly e, and the row reported is a most violating one
ZeroBlockingMostViolating ==
  ZeroBlocked =>
    /\ Eq(d.tau, Zero)
    /\ index \in Range(p.nz)
    /\ ZeroBlocks(d0, PrimalBudget, index)
    /\ sign = (IF Lt(d0.dz[index], Zero) THEN -1 ELSE 1)
    /\ \A i \in Range(p.nz) :
         ZeroBlocks(d0, PrimalBudget, i) => Ge(PastBound(d0, index), PastBound(d0, i))

(***************************************************************************)
(* The primal blocking of one line search: the first half of               *)
(* casadi_qp_linesearch, from any warm start of two variables without      *)
(* linear constraints, along any direction                                 *)
(***************************************************************************)
PrimalBlocking ==
  /\ pc = "primal_blocking"
  /\ LET r == casadi_qp_primal_blocking(p, [d EXCEPT !.tau = One],
                                        fmax(d.pr, Div(d.du, p.du_to_pr)), -1, 0)
     IN  /\ d' = r.d
         /\ index' = r.index
         /\ sign' = r.sign
  /\ pc' = "primal_blocked"
  /\ d0' = d
  /\ UNCHANGED <<p, r_index, r_sign, ret, iter>>

PrimalSteps == {Q(-2), Q(-1), Zero, Q(1)}

InitPrimal ==
  /\ InitLocals
  /\ pc = "primal_blocking"
  /\ LET h == [r \in Range(2) |-> [c \in Range(2) |-> IF r = c THEN One ELSE Zero]]
         a == [r \in Range(0) |-> [c \in Range(2) |-> Zero]]
     IN  /\ p = Prob(2, 0, h, a, DMin, DuToPr)
         /\ \E x \in [Range(2) -> Ints(1)],
               lam \in [Range(2) -> {Neg(One), Zero, One}],
               lb \in [Range(2) -> {NInf, Zero, Q(3)}], ub \in [Range(2) -> {Zero, PInf}],
               dz \in [Range(2) -> PrimalSteps] :
              LET r == casadi_qp_reset(p, [Data(2, 0, h, a, ConstVec(2, Zero)) EXCEPT
                                             !.z = x, !.lam = lam, !.lbz = lb, !.ubz = ub])
              IN  d = [casadi_qp_calc_dependent(p, r.d) EXCEPT !.dz = dz]
  /\ d0 = d

NextPrimal == PrimalBlocking

SpecPrimal == InitPrimal /\ [][NextPrimal]_vars

PrimalZeroBlocked ==
  pc = "primal_blocked" /\ \E i \in Range(p.nz) : ZeroBlocks(d0, PrimalBudget, i)

\* C16: a primal blocking pinned to tau = 0 reports the most violating of the rows
\* that are past a bound by e and pushed further (-1 for a lower, +1 for an upper
\* bound), not merely the last of them in scan order
ZeroBlockingReportsMostViolating ==
  PrimalZeroBlocked =>
    /\ Eq(d.tau, Zero)
    /\ index \in Range(p.nz)
    /\ ZeroBlocks(d0, PrimalBudget, index)
    /\ sign = (IF Lt(d0.dz[index], Zero) THEN -1 ELSE 1)
    /\ \A i \in Range(p.nz) :
         ZeroBlocks(d0, PrimalBudget, i) => Ge(PastBound(d0, index), PastBound(d0, i))

\* The same when no row has crossed bounds
ZeroBlockingReportsMostViolatingOrdered ==
  BoundsOrdered => ZeroBlockingReportsMostViolating

\* Step at which z[i] reaches the bound it moves towards, relaxed by e
StepToBound(dd, e, i) ==
  IF Lt(dd.dz[i], Zero) THEN Div(Sub(Sub(dd.lbz[i], e), dd.z[i]), dd.dz[i])
  ELSE IF Gt(dd.dz[i], Zero) THEN Div(Sub(Add(dd.ubz[i], e), dd.z[i]), dd.dz[i])
  ELSE PInf

\* The rows whose step to the bound is below the full step and below every other row's
Tightest(dd, e) ==
  {i \in Range(p.nz) :
     /\ Lt(StepToBound(dd, e, i), One)
     /\ \A k \in Range(p.nz) : Le(StepToBound(dd, e, i), StepToBound(dd, e, k))}

FirstTightest(dd, e) == CHOOSE i \in Tightest(dd, e) : \A k \in Tightest(dd, e) : i <= k

\* lam[i] already has the sign of the bound that z[i] moves towards
AlreadyActive(dd, i) ==
  IF Lt(dd.dz[i], Zero) THEN Lt(dd.lam[i], Zero) ELSE Gt(dd.lam[i], Zero)

NotZeroBlocked ==
  pc = "primal_blocked" /\ \A i \in Range(p.nz) : ~ZeroBlocks(d0, PrimalBudget, i)

\* C17: without zero-blocking the primal blocking ends with tau = min(1, least step
\* to a bound relaxed by e); the blocker is the first row attaining that minimum, or -1
\* when lam of that row already has the sign of the bound; when no row shrinks tau,
\* index and sign stay as they were (-1 and 0)
PrimalBlockingMinStep ==
  NotZeroBlocked =>
    IF Tightest(d0, PrimalBudget) = {}
    THEN /\ Eq(d.tau, One)
         /\ index = -1
         /\ sign = 0
    ELSE LET i == FirstTightest(d0, PrimalBudget)
         IN  /\ Eq(d.tau, StepToBound(d0, PrimalBudget, i))
             /\ Gt(d.tau, Zero)
             /\ index = (IF AlreadyActive(d0, i) THEN -1 ELSE i)
             /\ sign = (IF Lt(d0.dz[i], Zero) THEN -1 ELSE 1)

\* Both rows attain the least step, the first one is reported
PrimalBlockingTie ==
  /\ NotZeroBlocked
  /\ Tightest(d0, PrimalBudget) = Range(p.nz)
  /\ index = 0

\* The tightest row is already active at the bound it moves towards
PrimalBlockingAlreadyActive ==
  /\ NotZeroBlocked
  /\ Tightest(d0, PrimalBudget) # {}
  /\ AlreadyActive(d0, FirstTightest(d0, PrimalBudget))
  /\ index = -1
  /\ sign # 0

\* The second row shrinks the step that the first row had shrunk already
PrimalBlockingSecondShrinks ==
  /\ NotZeroBlocked
  /\ Lt(StepToBound(d0, PrimalBudget, 1), StepToBound(d0, PrimalBudget, 0))
  /\ Lt(StepToBound(d0, PrimalBudget, 0), One)
  /\ index = 1

\* The list is the breakpoints of dd in ascending order, closed by the step itself
BreakpointList(dd, list) ==
  LET n == Len(list) - 1
  IN  /\ n >= 0
      /\ list[n + 1] = <<dd.tau, -1>>
      /\ \A j \in 1..n : Le(list[j][1], list[j + 1][1])
      /\ {list[j][2] : j \in 1..n} = BreakRows(dd)
      /\ n = Cardinality(BreakRows(dd))
      /\ \A j \in 1..n :
           /\ Eq(list[j][1], BreakAt(dd, list[j][2]))
           /\ Gt(list[j][1], Zero)
           /\ Lt(list[j][1], dd.tau)
      /\ \A j, k \in 1..n :
           (j < k /\ Eq(list[j][1], list[k][1])) => list[j][2] < list[k][2]

\* C18: the list of dual breakpoints is ascending in tau, ends with (tau, -1), and
\* holds before it exactly the rows with lam # 0, dlam # 0 and a strict sign change
\* of lam + tau*dlam, each with its breakpoint -lam/dlam strictly between 0 and tau;
\* rows with equal breakpoints come in ascending row order
DualBreakpointsSorted ==
  pc = "dual_blocked" =>
    BreakpointList(d0, casadi_qp_dual_breakpoints(p, d0, DualBudget, d0.tau))

\* Two rows change sign at the same step
DualBreakpointsTie ==
  /\ pc = "dual_blocked"
  /\ BreakRows(d0) = {0, 2}
  /\ Eq(BreakAt(d0, 0), BreakAt(d0, 2))

\* The later row changes sign first
DualBreakpointsOutOfRowOrder ==
  /\ pc = "dual_blocked"
  /\ BreakRows(d0) = {0, 2}
  /\ Lt(BreakAt(d0, 2), BreakAt(d0, 0))

(***************************************************************************)
(* The dual branch of casadi_qp_flip on its own: casadi_qp_du_index from   *)
(* any dependent-consistent state of two variables and one constraint in   *)
(* which the dual error dominates, with any sign left by the line search   *)
(***************************************************************************)
DuIndex ==
  /\ pc = "du_index"
  /\ Lt(Mul(p.du_to_pr, d.pr), d.du)
  /\ LET r == casadi_qp_du_index(p, d, sign)
     IN  /\ d' = [d EXCEPT !.msg = r.msg]
         /\ index' = r.index
         /\ sign' = r.sign
  /\ pc' = "du_indexed"
  /\ d0' = d
  /\ UNCHANGED <<p, r_index, r_sign, ret, iter>>

\* Entries of the constraint row
RowEntries == {Q(-2), Zero, One}

InitDuIndex ==
  /\ index = -1 /\ sign \in {-1, 0, 1} /\ r_index = -1 /\ r_sign = 0 /\ ret = 0 /\ iter = 0
  /\ pc = "du_index"
  /\ \E av \in [Range(2) -> RowEntries], g \in [Range(2) -> Ints(1)],
        lam \in [Range(3) -> {Neg(One), Zero, One}] :
       LET h == [r \in Range(2) |-> [c \in Range(2) |-> IF r = c THEN One ELSE Zero]]
           a == [r \in Range(1) |-> av]
           r == casadi_qp_reset(p, [Data(2, 1, h, a, g) EXCEPT
                                      !.lam = lam, !.ubz = ConstVec(3, One)])
       IN  /\ p = Prob(2, 1, h, a, DMin, DuToPr)
           /\ d = casadi_qp_calc_dependent(p, r.d)
  /\ d0 = d

NextDuIndex == DuIndex

SpecDuIndex == InitDuIndex /\ [][NextDuIndex]_vars

\* Sensitivity of infeas[idu] to the multiplier of row i: minus the sign of
\* infeas[idu] on row idu, zero on the other variables, A times that on the constraints
Sensitivity(dd, i) ==
  LET s == IF Gt(dd.infeas[dd.idu], Zero) THEN Neg(One) ELSE One
  IN  IF i < p.nx THEN (IF i = dd.idu THEN s ELSE Zero)
      ELSE IF <<i - p.nx, dd.idu>> \in p.sp_a THEN Mul(dd.nz_a[i - p.nx][dd.idu], s)
      ELSE Zero

\* Row i is active, removing it reduces |infeas[idu]| and keeps the dual error within du
Removable(dd, i) ==
  /\ ~Eq(Sensitivity(dd, i), Zero)
  /\ ~Eq(dd.lam[i], Zero)
  /\ \/ Gt(Sensitivity(dd, i), Zero) /\ Lt(dd.lam[i], Zero)
     \/ Lt(Sensitivity(dd, i), Zero) /\ Gt(dd.lam[i], Zero)
  /\ Le(casadi_qp_du_check(p, dd, i), dd.du)

\* The removable rows of largest sensitivity
MostSensitive(dd) ==
  {i \in Range(p.nz) :
     /\ Removable(dd, i)
     /\ \A k \in Range(p.nz) :
          Removable(dd, k) => Ge(fabs(Sensitivity(dd, i)), fabs(Sensitivity(dd, k)))}

\* C21: du_index returns with sign 0 the removable row of largest |w[i]|, the one of
\* smallest index among equals, and returns -1 with the sign untouched when no row
\* is removable
DuIndexMostSensitive ==
  [][pc = "du_index" =>
       IF MostSensitive(d) = {}
       THEN index' = -1 /\ sign' = sign
       ELSE /\ index' \in MostSensitive(d)
            /\ \A k \in MostSensitive(d) : index' <= k
            /\ sign' = 0]_vars

\* Two removable rows of equal sensitivity, the first one returned
DuIndexTie ==
  /\ pc = "du_indexed"
  /\ Cardinality(MostSensitive(d0)) = 2
  /\ index \in Range(p.nx)

\* The constraint row is more sensitive than the removable variable row
DuIndexConstraintRow ==
  /\ pc = "du_indexed"
  /\ index = 2
  /\ \E i \in Range(p.nx) : Removable(d0, i)

\* No row is removable and the sign of the line search is kept
DuIndexNone ==
  /\ pc = "du_indexed"
  /\ index = -1
  /\ sign # 0

\* The flip check reports a singularity and no companion row
NoCompanion(fc) == fc.ret = 1 /\ fc.r_index = -1

\* The proposal a would be added to a nonsingular KKT, make it singular, and no
\* companion row is available
SingularAddition(a) ==
  /\ a.index >= 0
  /\ a.sign # 0
  /\ d.sing = 0
  /\ NoCompanion(casadi_qp_flip_check(p, d, a.index, a.sign, r_index,
                                      fmax(Mul(p.du_to_pr, d.pr), d.du)))

\* C22: when the KKT is nonsingular and the flip check reports that adding
\* (index, sign # 0) makes it singular with no companion row, flip records
\* 'Cannot enforce', sets index to -1 and changes neither lam nor z nor what
\* calc_dependent computes; no error code is set and the loop goes on
CannotEnforce ==
  [][(pc = "flip" /\ SingularAddition(flip_propose(p, d, index, sign, r_index, r_sign,
                                                   fmax(Mul(p.du_to_pr, d.pr), d.du)))) =>
       /\ d'.msg = "Cannot enforce"
       /\ index' = -1
       /\ d'.lam = d.lam /\ d'.z = d.z
       /\ d'.pr = d.pr /\ d'.du = d.du /\ d'.ipr = d.ipr /\ d'.idu = d.idu
       /\ d'.infeas = d.infeas /\ d'.f = d.f
       /\ ret' = ret
       /\ pc' = "dependent"]_vars

\* A flip that was given up
CannotEnforceWitness ==
  /\ pc = "dependent"
  /\ d.msg = "Cannot enforce"
  /\ index = -1 /\ sign # 0
  /\ d0.sing = 0
  /\ BoundsOrdered

(***************************************************************************)
(* The singularity check of casadi_qp_flip on its own, for a nonsingular   *)
(* KKT: one coupled variable with two constraints on it, alone or behind   *)
(* ten uncoupled variables (so that the constraints are rows 11 and 12)    *)
(***************************************************************************)
FlipCheck ==
  /\ pc = "flip_check"
  /\ d.sing = 0
  /\ LET fc == casadi_qp_flip_check(p, d, index, sign, r_index,
                                    fmax(Mul(p.du_to_pr, d.pr), d.du))
     IN  /\ d' = fc.d
         /\ ret' = fc.ret
         /\ r_index' = fc.r_index
  /\ pc' = "flip_checked"
  /\ d0' = d
  /\ UNCHANGED <<p, index, sign, r_sign, iter>>

\* Number of variables
Widths == {1, 11}

InitFlipCheck ==
  /\ r_index = -1 /\ r_sign = 0 /\ ret = 0 /\ iter = 0
  /\ pc = "flip_check"
  /\ \E nx \in Widths, a1 \in {One}, a2 \in {One, Q(2)}, g0 \in {One},
        lam0 \in {Neg(One), Zero, One}, lam1 \in {Neg(One), Zero, One},
        lam2 \in {Neg(One), Zero, One}, dl \in {Zero, One} :
       LET h == [r \in Range(nx) |-> [c \in Range(nx) |-> IF r = c THEN One ELSE Zero]]
           a == [r \in Range(2) |->
                   [c \in Range(nx) |-> IF c # nx - 1 THEN Zero ELSE IF r = 0 THEN a1 ELSE a2]]
           lam == [i \in Range(nx + 2) |->
                     IF i = nx - 1 THEN lam0 ELSE IF i = nx THEN lam1
                     ELSE IF i = nx + 1 THEN lam2 ELSE Zero]
           r == casadi_qp_reset(p, [Data(nx, 2, h, a, [c \in Range(nx) |->
                                                        IF c = nx - 1 THEN g0 ELSE Zero]) EXCEPT
                                      !.lam = lam, !.ubz = ConstVec(nx + 2, One)])
           f == casadi_qp_factorize(p, casadi_qp_calc_dependent(p, r.d))
       IN  /\ p = Prob(nx, 2, h, a, DMin, DuToPr)
           /\ d = [f EXCEPT !.dlam = ConstVec(nx + 2, dl)]
           /\ index \in {nx - 1, nx, nx + 1}
           /\ sign \in {-1, 0, 1}
           /\ sign # 0 \/ ~Eq(d.lam[index], Zero)
  /\ d0 = d

NextFlipCheck == FlipCheck

SpecFlipCheck == InitFlipCheck /\ [][NextFlipCheck]_vars

\* The column that leaves the KKT when (index, sign) enters, as flip_check scales it
LeavingColumn ==
  fc_normalize(p.nz, casadi_qp_kkt_column(p, d0, index, IF sign = 0 THEN 1 ELSE 0))

\* C23: a companion row accepted by flip_check has a nonzero scalar product of its
\* inactive column with the column that leaves, whatever its row index
CompanionAlgebraic ==
  (pc = "flip_checked" /\ ret = 1 /\ r_index >= 0) =>
    ~Small(casadi_qp_kkt_dot(p, d, LeavingColumn, r_index, 0))

\* The same for every row but row 12
CompanionAlgebraicButRow12 ==
  (pc = "flip_checked" /\ ret = 1 /\ r_index >= 0 /\ r_index # 12) =>
    ~Small(casadi_qp_kkt_dot(p, d, LeavingColumn, r_index, 0))

\* A companion row was accepted
CompanionAccepted == pc = "flip_checked" /\ ret = 1 /\ r_index >= 0 /\ r_index # 12

\* The direction that calc_step hands to scale_step
StepBefore == cs_direction(p, d0, cs_solve(p, d0))

\* The null vector of the transposed KKT that scale_step works with
NullVector == casadi_qr_colcomb(ss_transposed(p, d0).nz_kkt, p.nz, 0)

\* The step of a change c = <<i, s>> of the active set: enforcing lbz (s = -1) or ubz
\* (s = 1) on the inactive row i, or dropping the active row i (s = 0)
ChangeStep(dd, c) ==
  IF c[2] < 0 THEN Div(Sub(dd.lbz[c[1]], dd.z[c[1]]), dd.dz[c[1]])
  ELSE IF c[2] > 0 THEN Div(Sub(dd.ubz[c[1]], dd.z[c[1]]), dd.dz[c[1]])
  ELSE Div(Neg(dd.lam[c[1]]), dd.dlam[c[1]])

\* The step does not increase max(pr, du), which changes at rate terr
NonIncreasing(terr, tau_test) ==
  /\ ~(Gt(terr, Zero) /\ Gt(tau_test, Zero))
  /\ ~(Lt(terr, Zero) /\ Lt(tau_test, Zero))

\* The direction of the step is permitted
Permitted(t, tau_test) ==
  /\ Gt(tau_test, Zero) => t.pos_ok
  /\ Lt(tau_test, Zero) => t.neg_ok

\* The change c raises the rank and passes the tests of scale_step
Qualifies(dd, w, t, c) ==
  /\ ~Small(IF c[1] < p.nx THEN dd.dz[c[1]] ELSE dd.dlam[c[1]])
  /\ ~Small(casadi_qp_kkt_dot2(p, dd, w, c[1]))
  /\ IF c[2] # 0
     THEN /\ Eq(dd.lam[c[1]], Zero)
          /\ ~Small(dd.dz[c[1]])
          /\ IF c[2] < 0 THEN ~dd.neverlower[c[1]] ELSE ~dd.neverupper[c[1]]
          /\ NonIncreasing(t.terr, ChangeStep(dd, c))
          /\ ~Small(ChangeStep(dd, c))
     ELSE /\ ~Eq(dd.lam[c[1]], Zero)
          /\ ~Small(dd.dlam[c[1]])
          /\ ~dd.neverzero[c[1]]
          /\ NonIncreasing(t.terr, ChangeStep(dd, c))
          /\ Permitted(t, ChangeStep(dd, c))

Changes(dd, w, t) == {c \in Range(p.nz) \X {-1, 0, 1} : Qualifies(dd, w, t, c)}

\* Position of a change in the scan: by row, the lower bound before the upper
ScanOrder(c) == 2 * c[1] + (IF c[2] > 0 THEN 1 ELSE 0)

\* The changes of least |tau_test|
Nearest(dd, cs) ==
  {c \in cs : \A o \in cs : Le(fabs(ChangeStep(dd, c)), fabs(ChangeStep(dd, o)))}

FirstNearest(dd, cs) ==
  CHOOSE c \in Nearest(dd, cs) : \A o \in Nearest(dd, cs) : ScanOrder(c) <= ScanOrder(o)

SameStep(dd, de) == dd.dz = de.dz /\ dd.dlam = de.dlam /\ dd.tinfeas = de.tinfeas

ScaledStep(dd, de, tau) ==
  /\ dd.dz = casadi_scal(p.nz, tau, de.dz)
  /\ dd.dlam = casadi_scal(p.nz, tau, de.dlam)
  /\ dd.tinfeas = casadi_scal(p.nx, tau, de.tinfeas)

ScaleStepOutcome(pre, cs) ==
  IF d0.sing = 0
  THEN ret = 0 /\ r_index = -1 /\ r_sign = 0 /\ SameStep(d, pre)
  ELSE IF cs = {}
  THEN ret = 1 /\ r_index = -1 /\ SameStep(d, pre) /\ pc = "singular_unrecoverable"
  ELSE /\ ret = 0
       /\ <<r_index, r_sign>> = FirstNearest(pre, cs)
       /\ ScaledStep(d, pre, ChangeStep(pre, FirstNearest(pre, cs)))

AfterCalcStep == pc \in {"linesearch", "singular_unrecoverable"}

\* C24: scale_step returns 0 with (r_index, r_sign) = (-1, 0) and the step unchanged on
\* a nonsingular KKT; 1 with r_index = -1 and the step unscaled when the KKT is singular
\* and no change of the active set qualifies; and otherwise 0 with the first qualifying
\* change of least |tau| and dz, dlam, tinfeas multiplied by that tau
ScaleStepOutcomes ==
  AfterCalcStep => ScaleStepOutcome(StepBefore, Changes(StepBefore, NullVector, ss_terr(p, StepBefore)))

\* A singular KKT with two qualifying changes, the step scaled by the nearer one
ScaleStepScaled ==
  /\ pc = "linesearch"
  /\ d0.sing # 0
  /\ r_index >= 0
  /\ Cardinality(Changes(StepBefore, NullVector, ss_terr(p, StepBefore))) >= 2
  /\ ~SameStep(d, StepBefore)

\* A singular KKT without a qualifying change
ScaleStepUnrecoverable == pc = "singular_unrecoverable" /\ d0.sing # 0 /\ ret = 1

\* The change of the active set that scale_step selected
Selected == <<r_index, r_sign>>

ChangeSelected == pc = "linesearch" /\ d0.sing # 0 /\ r_index >= 0

SelectedAllowed(t, tau_test) == Permitted(t, tau_test) /\ NonIncreasing(t.terr, tau_test)

\* C25: every change of the active set selected by scale_step, enforcing a bound as
\* well as dropping a row, has a step in a direction allowed by (pos_ok, neg_ok) that
\* does not increase max(pr, du)
SelectedChangeAllowed ==
  ChangeSelected => SelectedAllowed(ss_terr(p, StepBefore), ChangeStep(StepBefore, Selected))

\* The same for the rows that are dropped
DroppedChangeAllowed ==
  (ChangeSelected /\ r_sign = 0) =>
    SelectedAllowed(ss_terr(p, StepBefore), ChangeStep(StepBefore, Selected))

\* The same for the bounds that are enforced, as far as max(pr, du) goes
EnforcedChangeNonIncreasing ==
  (ChangeSelected /\ r_sign # 0) =>
    NonIncreasing(ss_terr(p, StepBefore).terr, ChangeStep(StepBefore, Selected))

\* A row was dropped for regularity
DroppedForRegularity == ChangeSelected /\ r_sign = 0

\* A bound was enforced for regularity
EnforcedForRegularity == ChangeSelected /\ r_sign # 0

(***************************************************************************)
(* The assembly of the KKT matrix on its own: casadi_qp_kkt for any active *)
(* set of two variables and one constraint, with sp_kkt the union of the   *)
(* patterns or the full pattern; the data carries the scratch vector w     *)
(***************************************************************************)
Kkt ==
  /\ pc = "kkt"
  /\ LET r == kkt_assemble(p, d)
     IN  d' = [d EXCEPT !.nz_kkt = r.nz_kkt, !.w = r.w]
  /\ pc' = "kkt_done"
  /\ d0' = d
  /\ UNCHANGED <<p, index, sign, r_index, r_sign, ret, iter>>

\* Entries of H and A
KktEntries == {Zero, One, Q(2)}

InitKkt ==
  /\ InitLocals
  /\ pc = "kkt"
  /\ \E h00 \in KktEntries, h01 \in {Zero, One}, h11 \in {Zero, One},
        av \in [Range(2) -> KktEntries], lam \in [Range(3) -> {Neg(One), Zero, One}],
        full \in BOOLEAN, w0 \in {Zero, One} :
       LET h == [r \in Range(2) |->
                   [c \in Range(2) |-> IF r # c THEN h01 ELSE IF r = 0 THEN h00 ELSE h11]]
           a == [r \in Range(1) |-> av]
           q == Prob(2, 1, h, a, DMin, DuToPr)
           r == casadi_qp_reset(q, [Data(2, 1, h, a, ConstVec(2, Zero)) EXCEPT
                                      !.lam = lam, !.ubz = ConstVec(3, One)])
       IN  /\ p = IF full THEN [q EXCEPT !.sp_kkt = Range(3) \X Range(3)] ELSE q
           /\ d = [f \in DOMAIN r.d \cup {"w"} |->
                     IF f = "w" THEN ConstVec(3, w0) ELSE r.d[f]]
  /\ d0 = d

NextKkt == Kkt

SpecKkt == InitKkt /\ [][NextKkt]_vars

\* sp_kkt holds the patterns of H, A, A^T and the identity
KktPatternComplete == KktPattern(p.sp_h, p.sp_a, p.nx, p.na) \subseteq p.sp_kkt

\* Column i of the KKT matrix for the active set of dd, on the pattern of sp_kkt
SignatureColumn(dd, i) ==
  [j \in Range(p.nz) |->
     IF <<j, i>> \in p.sp_kkt
     THEN casadi_qp_kkt_column(p, dd, i, IF Eq(dd.lam[i], Zero) THEN 0 ELSE 1)[j]
     ELSE Zero]

\* C26: after casadi_qp_kkt every stored column i of nz_kkt is kkt_column(i, sign) on
\* the pattern of sp_kkt, with sign = 0 iff lam[i] = 0, and the scratch vector w is
\* all zero again, when sp_kkt holds the patterns of H, A, A^T and the identity
KktAgreesWithSignature ==
  (pc = "kkt_done" /\ KktPatternComplete) =>
    /\ \A i \in Range(p.nz) : d.nz_kkt[i] = SignatureColumn(d0, i)
    /\ d.w = ConstVec(p.nz, Zero)

\* A KKT matrix with an active variable, an active constraint and an inactive
\* variable coupled to both
KktMixedSignature ==
  /\ pc = "kkt_done"
  /\ ~Eq(d0.lam[0], Zero) /\ Eq(d0.lam[1], Zero) /\ ~Eq(d0.lam[2], Zero)
  /\ <<0, 1>> \in p.sp_h /\ <<0, 1>> \in p.sp_a
  /\ d0.w # d.w

(***************************************************************************)
(* The scalar products with the columns of the KKT matrix on their own:    *)
(* casadi_qp_kkt_dot and casadi_qp_kkt_dot2 of the vector held in dlam,    *)
(* for every row and sign; the data carries the values returned            *)
(***************************************************************************)
KktDot ==
  /\ pc = "kkt_dot"
  /\ d' = [d EXCEPT
             !.dot = [i \in Range(p.nz) |->
                        [s \in {-1, 0, 1} |-> casadi_qp_kkt_dot(p, d, d.dlam, i, s)]],
             !.dot2 = [i \in Range(p.nz) |-> casadi_qp_kkt_dot2(p, d, d.dlam, i)]]
  /\ pc' = "kkt_dot_done"
  /\ d0' = d
  /\ UNCHANGED <<p, index, sign, r_index, r_sign, ret, iter>>

InitKktDot ==
  /\ InitLocals
  /\ pc = "kkt_dot"
  /\ \E h00 \in KktEntries, h01 \in {Zero, One}, h11 \in {Zero, One},
        av \in [Range(2) -> KktEntries], v \in [Range(3) -> Ints(1)] :
       LET h == [r \in Range(2) |->
                   [c \in Range(2) |-> IF r # c THEN h01 ELSE IF r = 0 THEN h00 ELSE h11]]
           a == [r \in Range(1) |-> av]
           r == casadi_qp_reset(p, [Data(2, 1, h, a, ConstVec(2, Zero)) EXCEPT
                                      !.dlam = v, !.ubz = ConstVec(3, One)])
       IN  /\ p = Prob(2, 1, h, a, DMin, DuToPr)
           /\ d = [f \in DOMAIN r.d \cup {"dot", "dot2"} |->
                     IF f = "dot" THEN [i \in Range(3) |-> [s \in {-1, 0, 1} |-> Zero]]
                     ELSE IF f = "dot2" THEN ConstVec(3, Zero)
                     ELSE r.d[f]]
  /\ d0 = d

NextKktDot == KktDot

SpecKktDot == InitKktDot /\ [][NextKktDot]_vars

\* kkt_dot(v, i, s) = v . kkt_column(i, s)
KktDotIsProduct ==
  pc = "kkt_dot_done" =>
    \A i \in Range(p.nz), s \in {-1, 0, 1} :
      d.dot[i][s] = casadi_dot(p.nz, d0.dlam, casadi_qp_kkt_column(p, d0, i, s))

\* The active variant of column i less the inactive variant
ActiveLessInactive(dd, i) ==
  [j \in Range(p.nz) |->
     Sub(casadi_qp_kkt_column(p, dd, i, 1)[j], casadi_qp_kkt_column(p, dd, i, 0)[j])]

\* kkt_vector(i) is the active variant of column i less the inactive one
KktVectorIsDifference ==
  pc = "kkt_dot_done" =>
    \A i \in Range(p.nz) : casadi_qp_kkt_vector(p, d0, i) = ActiveLessInactive(d0, i)

\* kkt_dot2(v, i) = v . kkt_vector(i)
KktDot2IsProduct ==
  pc = "kkt_dot_done" =>
    \A i \in Range(p.nz) :
      d.dot2[i] = casadi_dot(p.nz, d0.dlam, casadi_qp_kkt_vector(p, d0, i))

\* C27: kkt_dot(v, i, s) = v . kkt_column(i, s) and kkt_dot2(v, i) = v . kkt_vector(i)
\* for every v, row i and sign s, kkt_vector(i) being the difference between the
\* active and the inactive variant of column i
KktDotsAreProducts == KktDotIsProduct /\ KktDot2IsProduct /\ KktVectorIsDifference

\* kkt_vector(i) is the inactive variant of column i less the active one, and
\* kkt_dot2(v, i) is the scalar product of v with the active less the inactive one
KktDot2IsOppositeProduct ==
  pc = "kkt_dot_done" =>
    \A i \in Range(p.nz) :
      /\ d.dot2[i] = casadi_dot(p.nz, d0.dlam, ActiveLessInactive(d0, i))
      /\ d.dot2[i] = Neg(casadi_dot(p.nz, d0.dlam, casadi_qp_kkt_vector(p, d0, i)))

(***************************************************************************)
(* casadi_qp_work: the temporary integers and reals, which casadi_qp_init  *)
(* leaves behind the persistent vectors as d->iw and d->w                  *)
(***************************************************************************)
casadi_qp_work(pp) ==
  [sz_iw |-> IF 0 > pp.nz THEN 0 ELSE pp.nz,
   sz_w |-> IF pp.nz > 2 * pp.nz THEN pp.nz ELSE 2 * pp.nz]

(***************************************************************************)
(* The loop on a problem with one bounded variable and no constraint,      *)
(* started from a primal point and a multiplier that the caller supplies   *)
(***************************************************************************)
InitBounds ==
  /\ InitLocals
  /\ pc = "reset"
  /\ \E g \in Ints(1), x \in {Zero, One}, lam \in {Neg(One), Zero, One},
        lb \in {NInf, Zero}, ub \in {One, PInf} :
       LET h == [r \in Range(1) |-> [c \in Range(1) |-> One]]
           a == [r \in Range(0) |-> [c \in Range(1) |-> Zero]]
       IN  /\ p = Prob(1, 0, h, a, DMin, DuToPr)
           /\ d = [Data(1, 0, h, a, ConstVec(1, g)) EXCEPT
                     !.z = ConstVec(1, x), !.lam = ConstVec(1, lam),
                     !.lbz = ConstVec(1, lb), !.ubz = ConstVec(1, ub)]
  /\ d0 = d

SpecBounds == InitBounds /\ [][Next]_vars

\* The data that the line search hands to qp_dual_blocking
BeforeDualBlocking ==
  casadi_qp_primal_blocking(p, [d0 EXCEPT !.tau = One],
                            fmax(d0.pr, Div(d0.du, p.du_to_pr)), -1, 0).d

\* The breakpoint list of the line search that has just run
Breakpoints ==
  casadi_qp_dual_breakpoints(p, BeforeDualBlocking, DualBudget, BeforeDualBlocking.tau)

\* C28: the breakpoint list of the dual line search never has more entries
\* than the temporary integers (nz) and reals (2*nz) that qp_work reserves
BreakpointsFitScratch ==
  pc = "flip" =>
    /\ Len(Breakpoints) <= casadi_qp_work(p).sz_iw
    /\ Len(Breakpoints) <= casadi_qp_work(p).sz_w

\* The list always fits the temporary reals, and exceeds the temporary
\* integers by at most the closing entry of the step
BreakpointsFitReals ==
  pc = "flip" =>
    /\ Len(Breakpoints) <= casadi_qp_work(p).sz_w
    /\ Len(Breakpoints) <= casadi_qp_work(p).sz_iw + 1

\* Every row is active and changes sign within the step
AllRowsChangeSign ==
  /\ pc = "flip"
  /\ BreakRows(BeforeDualBlocking) = Range(p.nz)

(***************************************************************************)
(* The loop started from multipliers of any size that the caller supplies  *)
(***************************************************************************)
\* Multipliers of the caller, below and above dmin in magnitude
SuppliedLam == {Neg(Div(DMin, Q(2))), Zero, Div(DMin, Q(2)), One}

InitSupplied ==
  /\ InitLocals
  /\ pc = "reset"
  /\ \E g \in Ints(1), x \in {Zero, One}, lam \in [Range(2) -> SuppliedLam],
        lb \in [Range(2) -> {NInf, Zero}], ub \in [Range(2) -> {One, PInf}] :
       LET h == [r \in Range(1) |-> [c \in Range(1) |-> One]]
           a == [r \in Range(1) |-> [c \in Range(1) |-> One]]
       IN  /\ p = Prob(1, 1, h, a, DMin, DuToPr)
           /\ d = [Data(1, 1, h, a, ConstVec(1, g)) EXCEPT
                     !.z = ConstVec(2, x), !.lam = lam, !.lbz = lb, !.ubz = ub]
  /\ d0 = d

SpecSupplied == InitSupplied /\ [][Next]_vars

\* The first take_step of the loop has been executed
Stepped ==
  \/ pc = "flip"
  \/ pc \in {"dependent", "check", "solved", "max_iter"} /\ iter >= 1
  \/ iter >= 2

\* lam[i] is zero or at least dmin in magnitude
AwayFromZero(dd, i) == Eq(dd.lam[i], Zero) \/ Ge(fabs(dd.lam[i]), p.dmin)

\* C29: once the first take_step has been executed, every nonzero multiplier
\* is at least dmin in magnitude, whatever take_step, flip and calc_dependent
\* follow
MultiplierMagnitude == Stepped => \A i \in Range(p.nz) : AwayFromZero(d, i)

\* The first take_step starts from a multiplier of a constraint row that the
\* caller supplied below dmin, which reset and calc_dependent have kept, and
\* moves it away from zero
SuppliedBelowDmin ==
  /\ pc = "flip"
  /\ iter = 1
  /\ \E i \in Range(p.nz) : i >= p.nx /\ ~AwayFromZero(d0, i) /\ ~Eq(d.lam[i], Zero)

\* The rows below nx hold from calc_dependent on, the others only if the
\* caller supplied them so
MultiplierMagnitudeAfterReset ==
  AfterOkReset => \A i \in Range(p.nz) : AwayFromZero(d, i)

\* The first solve of flip_check: the KKT system for kkt_vector(index)
FirstSolve == casadi_qr_solve(d0.nz_kkt, p.nz, casadi_qp_kkt_vector(p, d0, index), 0)

\* flip_check has returned 0 before its second solve: dlam is as it was
ReturnedAtFirstTest == ret = 0 /\ d.dlam = d0.dlam /\ d.dz = FirstSolve

\* C30: flip_check returns 0 at its first independence test exactly when the
\* vector it has just solved for is zero, whatever dlam holds from before
FirstTestOnSolvedVector ==
  pc = "flip_checked" =>
    (Small(casadi_dot(p.nz, FirstSolve, FirstSolve)) <=> ReturnedAtFirstTest)

\* What decides the first test is the dlam of the preceding line search
FirstTestOnPrecedingDlam ==
  pc = "flip_checked" =>
    (Small(casadi_dot(p.nz, d0.dlam, d0.dlam)) <=> ReturnedAtFirstTest)

\* The solved vector is not zero and flip_check has returned at the first test
FirstTestIgnoresSolvedVector ==
  /\ pc = "flip_checked"
  /\ ~Small(casadi_dot(p.nz, FirstSolve, FirstSolve))
  /\ ReturnedAtFirstTest

====
